---- MODULE Spec2Model ----
(***************************************************************************)
(* Fixed-window rate limiter of emontalvo610/rate_limiter.                 *)
(*                                                                         *)
(* State: the wall clock (Date.now(), milliseconds), the rule store        *)
(* (table rate_limit_rules), the RateLimiter's rule cache (rulesCache,     *)
(* cacheExpiry) and the Redis counter store (count and expiry per key).    *)
(* Operations: RateLimiter.checkRateLimit, RateLimiter.clearCache and the  *)
(* passing of time (with Redis expiring keys).                             *)
(*                                                                         *)
(* Tenant ids, source addresses and rule kinds are strings; target URLs    *)
(* and API patterns are sequences of one-character strings, so that        *)
(* matchesPattern can walk them.  An absent (undefined) URL and the empty  *)
(* URL are both <<>>: the code treats both as falsy at every use.          *)
(***************************************************************************)
EXTENDS Integers, Sequences, FiniteSets, TLC

VARIABLES
    now,          \* Date.now(), milliseconds
    db,           \* rule store: tenant id -> sequence of rules (query order)
    rulesCache,   \* RateLimiter.rulesCache : Map<tenantId, rules>
    cacheExpiry,  \* RateLimiter.cacheExpiry : Map<tenantId, ms>
    store,        \* Redis: key -> [count, expireAt]
    last,         \* the last completed checkRateLimit call (observation)
    okCalls,      \* per tenant: times of the recent calls that did not throw
    errAt,        \* per tenant: {time of the latest recent call that threw}
    calls,        \* number of checkRateLimit calls made so far
    probe,        \* results of single function calls, oldest first
    lookups,      \* recent loadRulesForTenant and clearCache calls, in order
    procs,        \* checkRateLimit calls in flight: position and locals
    received,     \* per key: the values INCR has returned, in order
    expiredKeys,  \* keys that Redis has expired
    writes        \* the cache entries written by lookups, in order

(* The variables of the RateLimiter and its stores. *)
limiterVars ==
    <<now, db, rulesCache, cacheExpiry, store, last, okCalls, errAt, calls>>

vars ==
    <<now, db, rulesCache, cacheExpiry, store, last, okCalls, errAt, calls,
      probe, lookups, procs, received, expiredKeys, writes>>

(* The variables of calls in flight. *)
asyncVars == <<procs, received, expiredKeys, writes>>

----------------------------------------------------------------------------
(* Bounds of the model *)

StartNow == 100500       \* the clock at construction
TickMs == 1000           \* the clock advances in steps of this size
MaxNow == 103000         \* the clock stops here
MaxCalls == 3            \* checkRateLimit is called at most this often
MaxOps == 2              \* the failing Redis command is one of the first MaxOps
Horizon == 2000          \* okCalls and errAt remember this many milliseconds

(* Program constants *)

CACHE_TTL == 60000       \* RateLimiter.CACHE_TTL, milliseconds

undefined == -1          \* an absent optional field of RateLimitResult
NoTTL == <<>>            \* expireAt of a key without expiry; else <<ms>>

Tenants == {"t1", "t2"}
IPs == {"10.0.0.1", "10.0.0.2"}
NoUrl == <<>>
UrlAX == <<"/", "a", "/", "x">>
UrlAY == <<"/", "A", "/", "y">>
UrlB == <<"/", "b">>
Urls == {NoUrl, UrlAX, UrlAY, UrlB}

(* The requests that are made: <<tenantId, ipAddress, apiUrl>> *)
Requests ==
    { <<"t1", "10.0.0.1", UrlAX>>, <<"t1", "10.0.0.2", UrlAY>>,
      <<"t1", "10.0.0.1", NoUrl>>, <<"t1", "10.0.0.2", UrlB>>,
      <<"t2", "10.0.0.1", UrlAX>> }
PatA == <<"/", "a", "/", "*">>
PatC == <<"/", "c">>

ruleTypes == <<"GENERAL", "IP", "API">>

Rule(type, limit, windowSeconds, pattern) ==
    [rule_type |-> type, limit |-> limit,
     window_seconds |-> windowSeconds, api_pattern |-> pattern]

(* The contents of the rule store: rule sets per tenant, in query order. *)
GeneralOnly == << Rule("GENERAL", 2, 1, <<>>) >>
IpThenGeneral == << Rule("IP", 2, 2, <<>>), Rule("GENERAL", 1, 1, <<>>) >>
ApiThenIp == << Rule("API", 1, 1, PatA), Rule("IP", 2, 2, <<>>) >>
OtherGeneral == << Rule("GENERAL", 1, 2, <<>>) >>
TwoIp == << Rule("IP", 2, 1, <<>>), Rule("IP", 1, 1, <<>>) >>
ApiOnly == << Rule("API", 1, 1, PatA), Rule("API", 2, 2, PatC) >>

RuleStores ==
    { [t \in Tenants |-> <<>>],
      [t \in Tenants |-> IF t = "t1" THEN IpThenGeneral ELSE <<>>],
      [t \in Tenants |-> IF t = "t1" THEN ApiThenIp ELSE <<>>],
      [t \in Tenants |-> IF t = "t1" THEN TwoIp ELSE <<>>],
      [t \in Tenants |-> IF t = "t1" THEN GeneralOnly ELSE OtherGeneral] }

----------------------------------------------------------------------------
(* Helpers: strings as character sequences, maps as functions *)

EmptyMap == [k \in {} |-> 0]

Put(m, k, v) == [x \in (DOMAIN m) \cup {k} |-> IF x = k THEN v ELSE m[x]]

RECURSIVE Join(_)
(* the string made of the characters of cs (template-literal interpolation) *)
Join(cs) == IF cs = <<>> THEN "" ELSE Head(cs) \o Join(Tail(cs))

Drop(s, n) == SubSeq(s, n + 1, Len(s))

Max(a, b) == IF a >= b THEN a ELSE b

(* Canonical form of a character under the RegExp flag 'i'. *)
Fold(c) ==
    CASE c = "A" -> "a"
      [] c = "B" -> "b"
      [] c = "X" -> "x"
      [] c = "Y" -> "y"
      [] OTHER -> c

(* Characters the RegExp atom '.' does not match. *)
LineTerminators == {"\n", "\r"}

(* The class of the first replace without the dot *)
RegexSpecial_noDot ==
    {"+", "?", "^", "$", "{", "}", "(", ")", "|", "[", "]", "\\"}

(* The class [.+?^${}()|[\]\\] of the first replace in matchesPattern. *)
RegexSpecial ==
    {".", "+", "?", "^", "$", "{", "}", "(", ")", "|", "[", "]", "\\"}

----------------------------------------------------------------------------
(* RateLimiter.matchesPattern *)

RECURSIVE EscapeSpecial(_)
(* pattern.replace(/[.+?^${}()|[\]\\]/g, '\\$&') *)
EscapeSpecial(p) ==
    IF p = <<>> THEN <<>>
    ELSE IF Head(p) \in RegexSpecial
         THEN <<"\\", Head(p)>> \o EscapeSpecial(Tail(p))
         ELSE <<Head(p)>> \o EscapeSpecial(Tail(p))

RECURSIVE ReplaceStar(_)
(* .replace(/\*/g, '.*') *)
ReplaceStar(p) ==
    IF p = <<>> THEN <<>>
    ELSE IF Head(p) = "*"
         THEN <<".", "*">> \o ReplaceStar(Tail(p))
         ELSE <<Head(p)>> \o ReplaceStar(Tail(p))

regexPattern(pattern) == ReplaceStar(EscapeSpecial(pattern))

RECURSIVE RegExpSyntax(_, _, _, _)
(* Whether the RegExp constructor accepts the source re (it throws a       *)
(* SyntaxError otherwise): groups are balanced, a class is closed, a       *)
(* backslash escapes a character, and a quantifier has something to        *)
(* repeat.  depth counts the open groups; canRepeat says that an atom      *)
(* precedes, quantified that a quantifier does.                            *)
RegExpSyntax(re, depth, canRepeat, quantified) ==
    IF re = <<>> THEN depth = 0
    ELSE IF Head(re) = "\\"
    THEN Len(re) >= 2 /\ RegExpSyntax(Drop(re, 2), depth, TRUE, FALSE)
    ELSE IF Head(re) = "("
    THEN RegExpSyntax(Tail(re), depth + 1, FALSE, FALSE)
    ELSE IF Head(re) = ")"
    THEN depth > 0 /\ RegExpSyntax(Tail(re), depth - 1, TRUE, FALSE)
    ELSE IF Head(re) = "["
    THEN \E j \in 2..Len(re) :
            /\ re[j] = "]"
            /\ \A i \in 2..(j - 1) : re[i] # "]"
            /\ RegExpSyntax(Drop(re, j), depth, TRUE, FALSE)
    ELSE IF Head(re) \in {"*", "+", "?"}
    THEN IF canRepeat THEN RegExpSyntax(Tail(re), depth, FALSE, TRUE)
         ELSE /\ quantified /\ Head(re) = "?"
              /\ RegExpSyntax(Tail(re), depth, FALSE, FALSE)
    ELSE IF Head(re) \in {"^", "$", "|"}
    THEN RegExpSyntax(Tail(re), depth, FALSE, FALSE)
    ELSE RegExpSyntax(Tail(re), depth, TRUE, FALSE)

(* new RegExp(`^${re}$`, 'i') returns a RegExp. *)
RegExpCompiles(re) == RegExpSyntax(re, 0, FALSE, FALSE)

RECURSIVE RegexTest(_, _)
(* new RegExp(`^${re}$`, 'i').test(s), for regular expressions made of     *)
(* escaped characters, plain characters and the dot, each possibly         *)
(* followed by '*' (regexPattern produces escaped characters, plain        *)
(* characters and '.*').                                                   *)
RegexTest(re, s) ==
    IF re = <<>> THEN s = <<>>
    ELSE LET escaped == Head(re) = "\\" /\ Len(re) >= 2
             n == IF escaped THEN 2 ELSE 1
             atom(c) == IF escaped THEN Fold(c) = Fold(re[2])
                        ELSE IF Head(re) = "." THEN c \notin LineTerminators
                        ELSE Fold(c) = Fold(Head(re))
         IN IF Len(re) > n /\ re[n + 1] = "*"
            THEN \E k \in 0..Len(s) :
                    /\ \A i \in 1..k : atom(s[i])
                    /\ RegexTest(Drop(re, n + 1), Drop(s, k))
            ELSE /\ s # <<>>
                 /\ atom(Head(s))
                 /\ RegexTest(Drop(re, n), Tail(s))

(* matchesPattern throws: the RegExp constructor rejects the source. *)
matchesPatternThrows(pattern) == ~RegExpCompiles(regexPattern(pattern))

matchesPattern(url, pattern) == RegexTest(regexPattern(pattern), url)

----------------------------------------------------------------------------
(* RateLimiter.getCurrentWindow: Math.floor(Date.now() / 1000 / W) *)

(* getCurrentWindow with Math.ceil in place of Math.floor *)
getCurrentWindow_ceil(nowMs, windowSeconds) ==
    (nowMs + 1000 * windowSeconds - 1) \div (1000 * windowSeconds)

(* getCurrentWindow with Math.round in place of Math.floor *)
getCurrentWindow_round(nowMs, windowSeconds) ==
    (nowMs + 500 * windowSeconds) \div (1000 * windowSeconds)

getCurrentWindow(nowMs, windowSeconds) == nowMs \div (1000 * windowSeconds)

----------------------------------------------------------------------------
(* Redis commands and incrementCounter (lib/redis.ts) *)

(* INCR key: an absent key counts from 0 and is created without expiry. *)
RedisIncr(st, key) ==
    IF key \in DOMAIN st
    THEN Put(st, key, [count |-> st[key].count + 1,
                       expireAt |-> st[key].expireAt])
    ELSE Put(st, key, [count |-> 1, expireAt |-> NoTTL])

(* EXPIRE taking the time-to-live for milliseconds *)
RedisExpire_millis(st, key, ttl, nowMs) ==
    IF key \in DOMAIN st
    THEN Put(st, key, [count |-> st[key].count,
                       expireAt |-> <<nowMs + ttl>>])
    ELSE st

(* EXPIRE key ttl *)
RedisExpire(st, key, ttl, nowMs) ==
    IF key \in DOMAIN st
    THEN Put(st, key, [count |-> st[key].count,
                       expireAt |-> <<nowMs + ttl * 1000>>])
    ELSE st

(* Redis drops the keys whose expiry has passed. *)
RedisLive(st, nowMs) ==
    [k \in {x \in DOMAIN st :
               st[x].expireAt = NoTTL \/ st[x].expireAt[1] > nowMs} |-> st[k]]

(* incrementCounter(key, ttl).  ops is the number of Redis commands this   *)
(* checkRateLimit call has issued so far; command number failOp rejects    *)
(* (0: none does).  A rejected command changes nothing in Redis.           *)
(* incrementCounter setting the expiry on every increment *)
incrementCounter_alwaysExpire(st, key, ttl, nowMs, ops, failOp) ==
    IF ops + 1 = failOp
    THEN [threw |-> TRUE, store |-> st, count |-> 0, ops |-> ops + 1]
    ELSE LET st1 == RedisIncr(st, key)
             count == st1[key].count
         IN IF ops + 2 = failOp
            THEN [threw |-> TRUE, store |-> st1, count |-> count,
                  ops |-> ops + 2]
            ELSE [threw |-> FALSE,
                  store |-> RedisExpire(st1, key, ttl, nowMs),
                  count |-> count, ops |-> ops + 2]

incrementCounter(st, key, ttl, nowMs, ops, failOp) ==
    IF ops + 1 = failOp
    THEN [threw |-> TRUE, store |-> st, count |-> 0, ops |-> ops + 1]
    ELSE LET st1 == RedisIncr(st, key)
             count == st1[key].count
         IN IF count = 1
            THEN IF ops + 2 = failOp
                 THEN [threw |-> TRUE, store |-> st1, count |-> count,
                       ops |-> ops + 2]
                 ELSE [threw |-> FALSE,
                       store |-> RedisExpire(st1, key, ttl, nowMs),
                       count |-> count, ops |-> ops + 2]
            ELSE [threw |-> FALSE, store |-> st1, count |-> count,
                  ops |-> ops + 1]

----------------------------------------------------------------------------
(* RateLimiter.checkRule *)

(* identifier with one scope for all source addresses *)
identifier_anySource(rule, ipAddress, apiUrl) ==
    CASE rule.rule_type = "GENERAL" -> "general"
      [] rule.rule_type = "IP" -> "ip"
      [] rule.rule_type = "API" ->
            IF apiUrl # <<>> THEN Join(apiUrl) ELSE "unknown"
      [] OTHER -> "unknown"

(* identifier with the rule's pattern as the scope of an API rule *)
identifier_pattern(rule, ipAddress, apiUrl) ==
    CASE rule.rule_type = "GENERAL" -> "general"
      [] rule.rule_type = "IP" -> ipAddress
      [] rule.rule_type = "API" ->
            IF rule.api_pattern # <<>> THEN Join(rule.api_pattern)
            ELSE "unknown"
      [] OTHER -> "unknown"

identifier(rule, ipAddress, apiUrl) ==
    CASE rule.rule_type = "GENERAL" -> "general"
      [] rule.rule_type = "IP" -> ipAddress
      [] rule.rule_type = "API" ->
            IF apiUrl # <<>> THEN Join(apiUrl) ELSE "unknown"
      [] OTHER -> "unknown"

(* redisKey with the window index taken from the milliseconds *)
redisKey_msWindow(rule, tenantId, ipAddress, apiUrl, nowMs) ==
    "rate_limit:" \o tenantId \o ":" \o rule.rule_type \o ":"
        \o identifier(rule, ipAddress, apiUrl) \o ":"
        \o ToString(nowMs \div rule.window_seconds)

(* redisKey without the tenant id: one counter space for all tenants *)
redisKey_sharedTenant(rule, tenantId, ipAddress, apiUrl, nowMs) ==
    "rate_limit:" \o "shared" \o ":" \o rule.rule_type \o ":"
        \o identifier(rule, ipAddress, apiUrl) \o ":"
        \o ToString(getCurrentWindow(nowMs, rule.window_seconds))

redisKey(rule, tenantId, ipAddress, apiUrl, nowMs) ==
    "rate_limit:" \o tenantId \o ":" \o rule.rule_type \o ":"
        \o identifier(rule, ipAddress, apiUrl) \o ":"
        \o ToString(getCurrentWindow(nowMs, rule.window_seconds))

Denied(rule, remaining, resetTime) ==
    [allowed |-> FALSE, limit |-> rule.limit, remaining |-> remaining,
     resetTime |-> resetTime,
     message |-> "Rate limit exceeded for " \o rule.rule_type
                 \o " rule. Limit: " \o ToString(rule.limit)
                 \o " requests per " \o ToString(rule.window_seconds) \o "s"]

Passed(rule, remaining, resetTime) ==
    [allowed |-> TRUE, limit |-> rule.limit, remaining |-> remaining,
     resetTime |-> resetTime, message |-> ""]

(* checkRule deleting the counter when it denies *)
checkRule_dropOnDeny(st, rule, tenantId, ipAddress, apiUrl, nowMs, ops, failOp) ==
    LET window == getCurrentWindow(nowMs, rule.window_seconds)
        key == redisKey(rule, tenantId, ipAddress, apiUrl, nowMs)
        inc == incrementCounter(st, key, rule.window_seconds, nowMs,
                                ops, failOp)
        count == inc.count
        allowed == count <= rule.limit
        remaining == Max(0, rule.limit - count)
        resetTime == (window + 1) * rule.window_seconds
    IN [threw |-> inc.threw,
        store |-> IF inc.threw \/ allowed THEN inc.store
                  ELSE [k \in (DOMAIN inc.store) \ {key} |-> inc.store[k]],
        ops |-> inc.ops,
        key |-> key, window |-> window, count |-> count,
        result |-> IF allowed THEN Passed(rule, remaining, resetTime)
                   ELSE Denied(rule, remaining, resetTime)]

(* checkRule reporting the start of the current window as reset time *)
checkRule_resetThisWindow(st, rule, tenantId, ipAddress, apiUrl, nowMs, ops, failOp) ==
    LET window == getCurrentWindow(nowMs, rule.window_seconds)
        key == redisKey(rule, tenantId, ipAddress, apiUrl, nowMs)
        inc == incrementCounter(st, key, rule.window_seconds, nowMs,
                                ops, failOp)
        count == inc.count
        allowed == count <= rule.limit
        remaining == Max(0, rule.limit - count)
        resetTime == window * rule.window_seconds
    IN [threw |-> inc.threw, store |-> inc.store, ops |-> inc.ops,
        key |-> key, window |-> window, count |-> count,
        result |-> IF allowed THEN Passed(rule, remaining, resetTime)
                   ELSE Denied(rule, remaining, resetTime)]

(* checkRule comparing with < instead of <= *)
checkRule_strict(st, rule, tenantId, ipAddress, apiUrl, nowMs, ops, failOp) ==
    LET window == getCurrentWindow(nowMs, rule.window_seconds)
        key == redisKey(rule, tenantId, ipAddress, apiUrl, nowMs)
        inc == incrementCounter(st, key, rule.window_seconds, nowMs,
                                ops, failOp)
        count == inc.count
        allowed == count < rule.limit
        remaining == Max(0, rule.limit - count)
        resetTime == (window + 1) * rule.window_seconds
    IN [threw |-> inc.threw, store |-> inc.store, ops |-> inc.ops,
        key |-> key, window |-> window, count |-> count,
        result |-> IF allowed THEN Passed(rule, remaining, resetTime)
                   ELSE Denied(rule, remaining, resetTime)]

(* checkRule reporting the start of the current window as the reset time *)
checkRule_resetNow(st, rule, tenantId, ipAddress, apiUrl, nowMs, ops, failOp) ==
    LET window == getCurrentWindow(nowMs, rule.window_seconds)
        key == redisKey(rule, tenantId, ipAddress, apiUrl, nowMs)
        inc == incrementCounter(st, key, rule.window_seconds, nowMs,
                                ops, failOp)
        count == inc.count
        allowed == count <= rule.limit
        remaining == Max(0, rule.limit - count)
        resetTime == window * rule.window_seconds
    IN [threw |-> inc.threw, store |-> inc.store, ops |-> inc.ops,
        key |-> key, window |-> window, count |-> count,
        result |-> IF allowed THEN Passed(rule, remaining, resetTime)
                   ELSE Denied(rule, remaining, resetTime)]

checkRule(st, rule, tenantId, ipAddress, apiUrl, nowMs, ops, failOp) ==
    LET window == getCurrentWindow(nowMs, rule.window_seconds)
        key == redisKey(rule, tenantId, ipAddress, apiUrl, nowMs)
        inc == incrementCounter(st, key, rule.window_seconds, nowMs,
                                ops, failOp)
        count == inc.count
        allowed == count <= rule.limit
        remaining == Max(0, rule.limit - count)
        resetTime == (window + 1) * rule.window_seconds
    IN [threw |-> inc.threw, store |-> inc.store, ops |-> inc.ops,
        key |-> key, window |-> window, count |-> count,
        result |-> IF allowed THEN Passed(rule, remaining, resetTime)
                   ELSE Denied(rule, remaining, resetTime)]

----------------------------------------------------------------------------
(* RateLimiter.loadRulesForTenant.  dbFail: the query rejects, if issued.  *)

(* loadRulesForTenant caching an empty rule set when the query fails *)
loadRulesForTenant_cacheFailure(cache, expiryMap, rows, tenantId, nowMs, dbFail) ==
    LET cacheKey == tenantId
        hit == /\ cacheKey \in DOMAIN expiryMap
               /\ expiryMap[cacheKey] # 0
               /\ expiryMap[cacheKey] > nowMs
               /\ cacheKey \in DOMAIN cache
    IN IF hit
       THEN [threw |-> FALSE, fetched |-> FALSE, rules |-> cache[cacheKey],
             rulesCache |-> cache, cacheExpiry |-> expiryMap]
       ELSE IF dbFail
       THEN [threw |-> TRUE, fetched |-> TRUE, rules |-> <<>>,
             rulesCache |-> Put(cache, cacheKey, <<>>),
             cacheExpiry |-> Put(expiryMap, cacheKey, nowMs + CACHE_TTL)]
       ELSE [threw |-> FALSE, fetched |-> TRUE, rules |-> rows,
             rulesCache |-> Put(cache, cacheKey, rows),
             cacheExpiry |-> Put(expiryMap, cacheKey, nowMs + CACHE_TTL)]

(* loadRulesForTenant with one cache entry for all tenants *)
loadRulesForTenant_oneKey(cache, expiryMap, rows, tenantId, nowMs, dbFail) ==
    LET cacheKey == "rules"
        hit == /\ cacheKey \in DOMAIN expiryMap
               /\ expiryMap[cacheKey] # 0
               /\ expiryMap[cacheKey] > nowMs
               /\ cacheKey \in DOMAIN cache
    IN IF hit
       THEN [threw |-> FALSE, fetched |-> FALSE, rules |-> cache[cacheKey],
             rulesCache |-> cache, cacheExpiry |-> expiryMap]
       ELSE IF dbFail
       THEN [threw |-> TRUE, fetched |-> TRUE, rules |-> <<>>,
             rulesCache |-> cache, cacheExpiry |-> expiryMap]
       ELSE [threw |-> FALSE, fetched |-> TRUE, rules |-> rows,
             rulesCache |-> Put(cache, cacheKey, rows),
             cacheExpiry |-> Put(expiryMap, cacheKey, nowMs + CACHE_TTL)]

(* loadRulesForTenant serving an entry at the moment of its expiry *)
loadRulesForTenant_inclusive(cache, expiryMap, rows, tenantId, nowMs, dbFail) ==
    LET cacheKey == tenantId
        hit == /\ cacheKey \in DOMAIN expiryMap
               /\ expiryMap[cacheKey] # 0
               /\ expiryMap[cacheKey] >= nowMs
               /\ cacheKey \in DOMAIN cache
    IN IF hit
       THEN [threw |-> FALSE, fetched |-> FALSE, rules |-> cache[cacheKey],
             rulesCache |-> cache, cacheExpiry |-> expiryMap]
       ELSE IF dbFail
       THEN [threw |-> TRUE, fetched |-> TRUE, rules |-> <<>>,
             rulesCache |-> cache, cacheExpiry |-> expiryMap]
       ELSE [threw |-> FALSE, fetched |-> TRUE, rules |-> rows,
             rulesCache |-> Put(cache, cacheKey, rows),
             cacheExpiry |-> Put(expiryMap, cacheKey, nowMs + CACHE_TTL)]

loadRulesForTenant(cache, expiryMap, rows, tenantId, nowMs, dbFail) ==
    LET cacheKey == tenantId
        hit == /\ cacheKey \in DOMAIN expiryMap
               /\ expiryMap[cacheKey] # 0
               /\ expiryMap[cacheKey] > nowMs
               /\ cacheKey \in DOMAIN cache
    IN IF hit
       THEN [threw |-> FALSE, fetched |-> FALSE, rules |-> cache[cacheKey],
             rulesCache |-> cache, cacheExpiry |-> expiryMap]
       ELSE IF dbFail
       THEN [threw |-> TRUE, fetched |-> TRUE, rules |-> <<>>,
             rulesCache |-> cache, cacheExpiry |-> expiryMap]
       ELSE [threw |-> FALSE, fetched |-> TRUE, rules |-> rows,
             rulesCache |-> Put(cache, cacheKey, rows),
             cacheExpiry |-> Put(expiryMap, cacheKey, nowMs + CACHE_TTL)]

----------------------------------------------------------------------------
(* RateLimiter.checkRateLimit *)

OfType(rules, ruleType) ==
    SelectSeq(rules, LAMBDA rule : rule.rule_type = ruleType)

(* evaluationOrder without the outer loop over the kinds *)
evaluationOrder_asLoaded(rules) == rules

(* The rules in the order the two nested loops visit them. *)
evaluationOrder(rules) ==
    OfType(rules, ruleTypes[1]) \o OfType(rules, ruleTypes[2])
        \o OfType(rules, ruleTypes[3])

(* skipped without the pattern test *)
skipped_missingOnly(rule, apiUrl) ==
    rule.rule_type = "API" /\ apiUrl = <<>>

(* The two `continue` conditions of the inner loop. *)
skipped(rule, apiUrl) ==
    \/ rule.rule_type = "API" /\ apiUrl = <<>>
    \/ /\ rule.rule_type = "API" /\ rule.api_pattern # <<>>
       /\ ~matchesPattern(apiUrl, rule.api_pattern)

AllRulesPassed ==
    [allowed |-> TRUE, limit |-> undefined, remaining |-> undefined,
     resetTime |-> undefined, message |-> ""]

(* the catch block denying the request *)
FailClosed ==
    [allowed |-> FALSE, limit |-> undefined, remaining |-> undefined,
     resetTime |-> undefined,
     message |-> "Rate limiter error, allowing request"]

FailOpen ==
    [allowed |-> TRUE, limit |-> undefined, remaining |-> undefined,
     resetTime |-> undefined,
     message |-> "Rate limiter error, allowing request"]

(* loopExit denying a request that no rule was applied to *)
loopExit_denyUnmatched(trace) ==
    IF trace = <<>> THEN [AllRulesPassed EXCEPT !.allowed = FALSE]
    ELSE AllRulesPassed

(* What the loops return once every rule has been visited. *)
loopExit(trace) == AllRulesPassed

RECURSIVE evalRules(_, _, _, _, _, _, _, _, _, _)
(* The loops from position i of the evaluation order on.  trace collects   *)
(* one entry per checkRule call: position, rule, key, window, count and    *)
(* the RateLimitResult that checkRule returned (or would have, had the     *)
(* Redis command not rejected).                                            *)
evalRules(st, order, i, tenantId, ipAddress, apiUrl, nowMs, ops, failOp, trace) ==
    IF i > Len(order)
    THEN [threw |-> FALSE, store |-> st, result |-> loopExit(trace),
          trace |-> trace]
    ELSE IF skipped(order[i], apiUrl)
    THEN evalRules(st, order, i + 1, tenantId, ipAddress, apiUrl, nowMs,
                   ops, failOp, trace)
    ELSE LET r == checkRule(st, order[i], tenantId, ipAddress, apiUrl,
                            nowMs, ops, failOp)
             entry == [pos |-> i, rule |-> order[i], key |-> r.key,
                       window |-> r.window, count |-> r.count,
                       threw |-> r.threw, result |-> r.result]
         IN IF r.threw
            THEN [threw |-> TRUE, store |-> r.store, result |-> FailOpen,
                  trace |-> Append(trace, entry)]
            ELSE IF ~r.result.allowed
            THEN [threw |-> FALSE, store |-> r.store, result |-> r.result,
                  trace |-> Append(trace, entry)]
            ELSE evalRules(r.store, order, i + 1, tenantId, ipAddress,
                           apiUrl, nowMs, ops + (r.ops - ops), failOp,
                           Append(trace, entry))

(* checkRateLimit giving back the increments of a request that is denied   *)
(* or fails open                                                           *)
decide_rollback(cache, expiryMap, rows, st, tenantId, ipAddress, apiUrl, nowMs, dbFail, failOp) ==
    LET ld == loadRulesForTenant(cache, expiryMap, rows, tenantId, nowMs,
                                 dbFail)
        ev == evalRules(st, evaluationOrder(ld.rules), 1, tenantId,
                        ipAddress, apiUrl, nowMs, 0, failOp, <<>>)
    IN IF ld.threw
       THEN [threw |-> TRUE, fetched |-> ld.fetched, rules |-> ld.rules,
             rulesCache |-> ld.rulesCache, cacheExpiry |-> ld.cacheExpiry,
             store |-> st, result |-> FailOpen, trace |-> <<>>]
       ELSE IF Len(ld.rules) = 0
       THEN [threw |-> FALSE, fetched |-> ld.fetched, rules |-> ld.rules,
             rulesCache |-> ld.rulesCache, cacheExpiry |-> ld.cacheExpiry,
             store |-> st, result |-> [AllRulesPassed EXCEPT !.message = ""],
             trace |-> <<>>]
       ELSE [threw |-> ev.threw, fetched |-> ld.fetched, rules |-> ld.rules,
             rulesCache |-> ld.rulesCache, cacheExpiry |-> ld.cacheExpiry,
             store |-> IF ev.threw \/ ~ev.result.allowed THEN st
                       ELSE ev.store,
             result |-> ev.result, trace |-> ev.trace]

(* The whole of checkRateLimit as a function of the state it reads. *)
decide(cache, expiryMap, rows, st, tenantId, ipAddress, apiUrl, nowMs, dbFail, failOp) ==
    LET ld == loadRulesForTenant(cache, expiryMap, rows, tenantId, nowMs,
                                 dbFail)
        ev == evalRules(st, evaluationOrder(ld.rules), 1, tenantId,
                        ipAddress, apiUrl, nowMs, 0, failOp, <<>>)
    IN IF ld.threw
       THEN [threw |-> TRUE, fetched |-> ld.fetched, rules |-> ld.rules,
             rulesCache |-> ld.rulesCache, cacheExpiry |-> ld.cacheExpiry,
             store |-> st, result |-> FailOpen, trace |-> <<>>]
       ELSE IF Len(ld.rules) = 0
       THEN [threw |-> FALSE, fetched |-> ld.fetched, rules |-> ld.rules,
             rulesCache |-> ld.rulesCache, cacheExpiry |-> ld.cacheExpiry,
             store |-> st, result |-> [AllRulesPassed EXCEPT !.message = ""],
             trace |-> <<>>]
       ELSE [threw |-> ev.threw, fetched |-> ld.fetched, rules |-> ld.rules,
             rulesCache |-> ld.rulesCache, cacheExpiry |-> ld.cacheExpiry,
             store |-> ev.store, result |-> ev.result, trace |-> ev.trace]

NoCall ==
    [tenantId |-> "", ipAddress |-> "", apiUrl |-> <<>>,
     threw |-> FALSE, rules |-> <<>>,
     result |-> AllRulesPassed, trace |-> <<>>]

checkRateLimit(tenantId, ipAddress, apiUrl, dbFail, failOp) ==
    /\ calls < MaxCalls
    /\ calls' = calls + 1
    /\ \E d \in {decide(rulesCache, cacheExpiry, db[tenantId], store,
                       tenantId, ipAddress, apiUrl, now, dbFail, failOp)} :
          /\ rulesCache' = d.rulesCache
          /\ cacheExpiry' = d.cacheExpiry
          /\ store' = d.store
          /\ last' = [tenantId |-> tenantId, ipAddress |-> ipAddress,
                      apiUrl |-> apiUrl, threw |-> d.threw,
                      rules |-> d.rules, result |-> d.result,
                      trace |-> d.trace]
          /\ okCalls' = IF d.threw THEN okCalls
                        ELSE [okCalls EXCEPT ![tenantId] = Append(@, now)]
          /\ errAt' = IF d.threw THEN [errAt EXCEPT ![tenantId] = {now}]
                      ELSE errAt
    /\ UNCHANGED <<now, db>>

(* clearCache dropping only the entries that have expired *)
clearCache_expiredOnly ==
    /\ rulesCache' = [t \in {x \in DOMAIN rulesCache :
                                x \in DOMAIN cacheExpiry
                                   /\ cacheExpiry[x] > now} |-> rulesCache[t]]
    /\ cacheExpiry' = [t \in {x \in DOMAIN cacheExpiry :
                                 cacheExpiry[x] > now} |-> cacheExpiry[t]]
    /\ UNCHANGED <<now, db, store, last, okCalls, errAt, calls>>

(* RateLimiter.clearCache *)
clearCache ==
    /\ rulesCache' = EmptyMap
    /\ cacheExpiry' = EmptyMap
    /\ UNCHANGED <<now, db, store, last, okCalls, errAt, calls>>

(* Time passes; Redis expires keys. *)
Tick(d) ==
    /\ now + d <= MaxNow
    /\ now' = now + d
    /\ store' = RedisLive(store, now + d)
    /\ okCalls' = [t \in Tenants |->
                     SelectSeq(okCalls[t], LAMBDA at : at > now + d - Horizon)]
    /\ errAt' = [t \in Tenants |->
                   {at \in errAt[t] : at > now + d - Horizon}]
    /\ UNCHANGED <<db, rulesCache, cacheExpiry, last, calls>>

----------------------------------------------------------------------------

(* No call is in flight. *)
Quiet ==
    /\ procs = <<>>
    /\ received = EmptyMap
    /\ expiredKeys = {}
    /\ writes = <<>>

Init ==
    /\ now = StartNow
    /\ db \in RuleStores
    /\ rulesCache = EmptyMap
    /\ cacheExpiry = EmptyMap
    /\ store = EmptyMap
    /\ last = NoCall
    /\ okCalls = [t \in Tenants |-> <<>>]
    /\ errAt = [t \in Tenants |-> {}]
    /\ calls = 0
    /\ probe = <<>>
    /\ lookups = <<>>
    /\ Quiet

Next ==
    \/ \E req \in Requests, dbFail \in BOOLEAN, failOp \in 0..MaxOps :
            /\ dbFail => failOp = 0
            /\ checkRateLimit(req[1], req[2], req[3], dbFail, failOp)
            /\ UNCHANGED <<probe, lookups, asyncVars>>
    \/ clearCache /\ UNCHANGED <<probe, lookups, asyncVars>>
    \/ Tick(TickMs) /\ UNCHANGED <<probe, lookups, asyncVars>>

Spec == Init /\ [][Next]_vars

----------------------------------------------------------------------------
(* Vocabulary of the properties *)

(* Times a and b lie in the same W-second window since the epoch. *)
SameWindow(a, b, W) == a \div (1000 * W) = b \div (1000 * W)

(* The last call was made for tenant t, returned normally, and its time is *)
(* still remembered; LastOk(t) is that time.                               *)
LastIsOkCallOf(t) ==
    /\ last.tenantId = t
    /\ ~last.threw
    /\ okCalls[t] # <<>>

LastOk(t) == okCalls[t][Len(okCalls[t])]

(* Number of remembered calls of t that returned normally in the W-second  *)
(* window of time a.                                                       *)
OkCallsInWindow(t, a, W) ==
    Cardinality({i \in 1..Len(okCalls[t]) : SameWindow(okCalls[t][i], a, W)})

(* No remembered call of t threw in the W-second window of time a. *)
NoErrorInWindow(t, a, W) == \A at \in errAt[t] : ~SameWindow(at, a, W)

(* t has exactly one rule, a GENERAL one, and the last call is a call of t *)
(* in the window that is current, in which every call of t returned        *)
(* normally.                                                               *)
SingleGeneralCase(t) ==
    /\ Len(db[t]) = 1
    /\ db[t][1].rule_type = "GENERAL"
    /\ LastIsOkCallOf(t)
    /\ SameWindow(LastOk(t), now, db[t][1].window_seconds)
    /\ NoErrorInWindow(t, now, db[t][1].window_seconds)

Identifiers == {"general", "unknown"} \cup IPs \cup {Join(u) : u \in Urls}

LastEntry == last.trace[Len(last.trace)]

----------------------------------------------------------------------------
(* C1: for a tenant with a single GENERAL rule of limit L and window W,    *)
(* with the counter store available, the k-th call inside one W-second     *)
(* window is allowed for every k <= L and denied for k = L + 1.            *)
C1_GeneralLimit ==
    \A t \in Tenants :
        SingleGeneralCase(t) =>
            LET L == db[t][1].limit
                k == OkCallsInWindow(t, now, db[t][1].window_seconds)
            IN /\ k <= L => last.result.allowed
               /\ k = L + 1 => ~last.result.allowed

(* The (L+1)-th call of a window has been made and was denied. *)
C1_Witness ==
    \E t \in Tenants :
        /\ SingleGeneralCase(t)
        /\ OkCallsInWindow(t, now, db[t][1].window_seconds)
              = db[t][1].limit + 1
        /\ ~last.result.allowed

(* C2 (as claimed): when every applicable rule passes, the Decision is     *)
(* allowed = true and carries the limit, remaining = max(0, limit - count) *)
(* and reset time of the last rule evaluated.                              *)
C2_AllowedCarriesFigures ==
    (/\ last.tenantId # ""
     /\ ~last.threw
     /\ last.trace # <<>>
     /\ \A i \in DOMAIN last.trace :
           last.trace[i].count <= last.trace[i].rule.limit)
    => /\ last.result.allowed
       /\ last.result.limit = LastEntry.rule.limit
       /\ last.result.remaining
             = Max(0, LastEntry.rule.limit - LastEntry.count)
       /\ last.result.resetTime
             = (LastEntry.window + 1) * LastEntry.rule.window_seconds

(* C3: whenever the post-increment count of a rule exceeds the rule's      *)
(* limit, the call returns allowed = false with limit = the rule's limit,  *)
(* remaining = 0 and reset time = (window index + 1) * window_seconds, the *)
(* window index being the one in the counter key of that rule.             *)
C3_DenialFigures ==
    \A i \in DOMAIN last.trace :
        LET e == last.trace[i]
            W == e.rule.window_seconds
        IN (~e.threw /\ e.count > e.rule.limit) =>
              /\ i = Len(last.trace)
              /\ ~last.result.allowed
              /\ last.result.limit = e.rule.limit
              /\ last.result.remaining = 0
              /\ last.result.resetTime % W = 0
              /\ \E id \in Identifiers :
                    e.key = "rate_limit:" \o last.tenantId \o ":"
                              \o e.rule.rule_type \o ":" \o id \o ":"
                              \o ToString((last.result.resetTime \div W) - 1)

(* A call has been denied by a rule whose count exceeded its limit. *)
C3_Witness ==
    /\ last.trace # <<>>
    /\ ~LastEntry.threw
    /\ LastEntry.count > LastEntry.rule.limit
    /\ ~last.result.allowed

----------------------------------------------------------------------------
(* Vocabulary of the properties about evaluation order and counters *)

Rank(ruleType) ==
    CASE ruleType = "GENERAL" -> 1
      [] ruleType = "IP" -> 2
      [] ruleType = "API" -> 3

(* Rule number i of the rule set comes before rule number j in the order   *)
(* GENERAL, IP, API and, within one kind, the order of the rule set.       *)
Before(rules, i, j) ==
    \/ Rank(rules[i].rule_type) < Rank(rules[j].rule_type)
    \/ rules[i].rule_type = rules[j].rule_type /\ i < j

RuleIndex(rules, rule) == CHOOSE i \in DOMAIN rules : rules[i] = rule

(* The rule is applicable to a request with this target. *)
Applicable(rule, apiUrl) ==
    \/ rule.rule_type # "API"
    \/ /\ apiUrl # <<>>
       /\ rule.api_pattern = <<>> \/ matchesPattern(apiUrl, rule.api_pattern)

(* The value Redis holds under key k; an absent key counts 0. *)
Count(st, k) == IF k \in DOMAIN st THEN st[k].count ELSE 0

(* This step is a checkRateLimit call. *)
IsCall == calls' # calls

----------------------------------------------------------------------------
(* C4: rules are evaluated in the kind order GENERAL, IP, API and within   *)
(* one kind in the order of the loaded rule set; a denial is attributed to *)
(* the first rule in that order whose count exceeds its limit.             *)
C4_EvaluationOrder ==
    (last.tenantId # "" /\ ~last.threw) =>
        LET tr == last.trace
            rules == last.rules
            idx(a) == RuleIndex(rules, tr[a].rule)
        IN /\ \A a, b \in DOMAIN tr : a < b => Before(rules, idx(a), idx(b))
           /\ ~last.result.allowed =>
                 /\ tr # <<>>
                 /\ LastEntry.count > LastEntry.rule.limit
                 /\ last.result = Denied(LastEntry.rule, 0,
                                         last.result.resetTime)
                 /\ \A a \in DOMAIN tr :
                       a < Len(tr) => tr[a].count <= tr[a].rule.limit
                 /\ \A j \in DOMAIN rules :
                       (/\ Before(rules, j, idx(Len(tr)))
                        /\ Applicable(rules[j], last.apiUrl))
                       => \E a \in DOMAIN tr : idx(a) = j

(* With an IP rule loaded before a GENERAL rule, a call has been denied by *)
(* the GENERAL rule, and the IP rule was not evaluated in that call.       *)
C4_Witness ==
    /\ Len(last.rules) = 2
    /\ last.rules[1].rule_type = "IP"
    /\ last.rules[2].rule_type = "GENERAL"
    /\ ~last.threw
    /\ ~last.result.allowed
    /\ Len(last.trace) = 1
    /\ LastEntry.rule.rule_type = "GENERAL"

(* C5 (as claimed): in a call that returns allowed = false, the counters   *)
(* of all rules later in the evaluation order are left unchanged.          *)
C5_LaterCountersUnchanged ==
    [][(IsCall /\ ~last'.threw /\ ~last'.result.allowed) =>
          LET rules == last'.rules
              denying == RuleIndex(rules, LastEntry'.rule)
              key(j) == redisKey(rules[j], last'.tenantId, last'.ipAddress,
                                 last'.apiUrl, now)
          IN \A j \in DOMAIN rules :
                Before(rules, denying, j) =>
                    Count(store', key(j)) = Count(store, key(j))]_vars

(* C6: if the rule fetch or any counter-store call fails, the call returns *)
(* allowed = true with the message 'Rate limiter error, allowing request'  *)
(* and no limit, remaining or reset figures.                               *)
C6_FailOpen ==
    last.threw =>
        /\ last.result.allowed
        /\ last.result.message = "Rate limiter error, allowing request"
        /\ last.result.limit = undefined
        /\ last.result.remaining = undefined
        /\ last.result.resetTime = undefined

(* A counter-store call has failed at the second rule of an evaluation,    *)
(* after the first rule was counted.                                       *)
C6_Witness ==
    /\ last.threw
    /\ Len(last.trace) = 2
    /\ ~last.trace[1].threw
    /\ last.trace[2].threw

(* C7: for a tenant without rules, every call returns allowed = true and   *)
(* increments no counter.                                                  *)
C7_NoRulesAllowed ==
    [][(IsCall /\ db[last'.tenantId] = <<>>) =>
          /\ last'.result.allowed
          /\ last'.trace = <<>>
          /\ store' = store]_vars

(* A call for a tenant without rules, with a target, has returned         *)
(* normally and was allowed while another tenant's rules are cached and    *)
(* counted.                                                                *)
C7_Witness ==
    /\ last.tenantId # ""
    /\ db[last.tenantId] = <<>>
    /\ last.apiUrl # NoUrl
    /\ ~last.threw
    /\ last.result.allowed
    /\ \E t \in DOMAIN rulesCache : rulesCache[t] # <<>>
    /\ store # EmptyMap

(* C8: under an IP rule, a request from one source address leaves the      *)
(* count and the rule's decision for every other source address unchanged. *)
C8_SourcesIndependent ==
    [][IsCall =>
          \A j \in DOMAIN db[last'.tenantId] :
             db[last'.tenantId][j].rule_type = "IP" =>
                \A other \in IPs \ {last'.ipAddress} :
                   \A rule \in {db[last'.tenantId][j]} :
                      \A key \in {redisKey(rule, last'.tenantId, other,
                                            last'.apiUrl, now)} :
                         /\ Count(store', key) = Count(store, key)
                         /\ \A before \in {checkRule(store, rule,
                                                last'.tenantId, other,
                                                last'.apiUrl, now, 0, 0)},
                               after \in {checkRule(store', rule,
                                               last'.tenantId, other,
                                               last'.apiUrl, now, 0, 0)} :
                               /\ after.count = before.count
                               /\ after.result = before.result]_vars

(* A source address has been denied by an IP rule while another source     *)
(* address has a counter of its own under the same tenant.                 *)
C8_Witness ==
    /\ ~last.threw
    /\ ~last.result.allowed
    /\ last.trace # <<>>
    /\ LastEntry.rule.rule_type = "IP"
    /\ \E other \in IPs \ {last.ipAddress} :
          \E k \in DOMAIN store :
             /\ k # LastEntry.key
             /\ k = "rate_limit:" \o last.tenantId \o ":IP:" \o other \o ":"
                      \o ToString(LastEntry.window)

(* C9: under an API rule the counter scope is the request's target itself: *)
(* a request to one target leaves the count and the rule's decision for    *)
(* every other target unchanged, also when both match the pattern.         *)
C9_TargetsIndependent ==
    [][IsCall =>
          /\ \A a \in DOMAIN last'.trace :
                last'.trace[a].rule.rule_type = "API" =>
                   last'.trace[a].key
                      = "rate_limit:" \o last'.tenantId \o ":API:"
                           \o Join(last'.apiUrl) \o ":"
                           \o ToString(last'.trace[a].window)
          /\ \A j \in DOMAIN db[last'.tenantId] :
                db[last'.tenantId][j].rule_type = "API" =>
                   \A other \in Urls \ {NoUrl, last'.apiUrl} :
                      \A rule \in {db[last'.tenantId][j]} :
                         \A key \in {redisKey(rule, last'.tenantId,
                                               last'.ipAddress, other, now)} :
                            /\ Count(store', key) = Count(store, key)
                            /\ \A before \in {checkRule(store, rule,
                                                   last'.tenantId,
                                                   last'.ipAddress, other,
                                                   now, 0, 0)},
                                  after \in {checkRule(store', rule,
                                                  last'.tenantId,
                                                  last'.ipAddress, other,
                                                  now, 0, 0)} :
                                  /\ after.count = before.count
                                  /\ after.result = before.result]_vars

(* One target has exhausted an API rule's limit, and a request to another  *)
(* target matching the same pattern has then been counted 1 and allowed.   *)
C9_Witness ==
    /\ ~last.threw
    /\ last.result.allowed
    /\ \E a \in DOMAIN last.trace :
          LET e == last.trace[a]
          IN /\ e.rule.rule_type = "API"
             /\ e.count = 1
             /\ \E other \in Urls \ {NoUrl, last.apiUrl} :
                   /\ matchesPattern(other, e.rule.api_pattern)
                   /\ matchesPattern(last.apiUrl, e.rule.api_pattern)
                   /\ Count(store, "rate_limit:" \o last.tenantId \o ":API:"
                                     \o Join(other) \o ":"
                                     \o ToString(e.window)) > e.rule.limit

(* C10 (as claimed): after the limit of a rule was exhausted in window w,  *)
(* the first call in window w+1 uses a fresh counter (count 1) and is      *)
(* allowed with remaining = L - 1.                                         *)
C10_ResetAtBoundary ==
    \A t \in Tenants :
        (/\ LastIsOkCallOf(t)
         /\ Len(db[t]) = 1
         /\ LET W == db[t][1].window_seconds
            IN /\ SameWindow(LastOk(t), now, W)
               /\ NoErrorInWindow(t, now, W)
               /\ OkCallsInWindow(t, now, W) = 1
               /\ OkCallsInWindow(t, now - 1000 * W, W) >= db[t][1].limit
         /\ last.trace # <<>>)
        => /\ LastEntry.count = 1
           /\ last.result.allowed
           /\ last.result.remaining = db[t][1].limit - 1

----------------------------------------------------------------------------
(* getCurrentWindow on its own: the clock runs over WinSeconds seconds and *)
(* the window index is computed at arbitrary moments, for one window       *)
(* length per behaviour.  probe keeps the last two computations.           *)

WinStart == 100000       \* the clock at the start, milliseconds
WinSeconds == 82         \* the clock runs for this many seconds
WinTickMs == 1000        \* the clock advances in steps of this size

(* Values of rate_limit_rules.window_seconds *)
WindowLengths == {2, 60}

(* Fractions of a second at which the clock may start. *)
Millis == {0, 999}

Idle ==
    /\ db = [t \in Tenants |-> <<>>]
    /\ rulesCache = EmptyMap
    /\ cacheExpiry = EmptyMap
    /\ store = EmptyMap
    /\ last = NoCall
    /\ okCalls = [t \in Tenants |-> <<>>]
    /\ errAt = [t \in Tenants |-> {}]
    /\ calls = 0

(* Keep the latest entry of the history h and add e. *)
Remember(h, e) == IF h = <<>> THEN <<e>> ELSE <<h[Len(h)], e>>

InitWindow ==
    /\ now \in {WinStart + ms : ms \in Millis}
    /\ probe = <<>>
    /\ lookups = <<>>
    /\ Quiet
    /\ Idle

ProbeWindow(windowSeconds) ==
    /\ probe # <<>> => probe[1].windowSeconds = windowSeconds
    /\ probe' = Remember(probe,
                         [at |-> now, windowSeconds |-> windowSeconds,
                          window |-> getCurrentWindow(now, windowSeconds)])
    /\ UNCHANGED <<limiterVars, lookups, asyncVars>>

TickWindow ==
    /\ now + WinTickMs <= WinStart + 1000 * WinSeconds
    /\ now' = now + WinTickMs
    /\ UNCHANGED <<db, rulesCache, cacheExpiry, store, last, okCalls, errAt,
                   calls, probe, lookups, asyncVars>>

NextWindow ==
    \/ \E windowSeconds \in WindowLengths : ProbeWindow(windowSeconds)
    \/ TickWindow

SpecWindow == InitWindow /\ [][NextWindow]_vars

(* Epoch seconds of a Date.now() value. *)
EpochSeconds(ms) == ms \div 1000

(* C11 (as claimed): with W = 60, calls at epoch seconds 100 and 159 get  *)
(* the same window index and a call at epoch second 161 gets the next one. *)
C11_SpecExample ==
    \A i, j \in DOMAIN probe :
        i < j =>
            LET W == probe[i].windowSeconds
                a == EpochSeconds(probe[i].at)
                b == EpochSeconds(probe[j].at)
            IN /\ (W = 60 /\ a = 100 /\ b = 159)
                     => probe[j].window = probe[i].window
               /\ (W = 60 /\ a \in {100, 159} /\ b = 161)
                     => probe[j].window = probe[i].window + 1

(* C11 (amended): with W = 60, calls at epoch seconds 120 and 179 get the  *)
(* same window index and a call at epoch second 181 gets the next one      *)
(* (while 100 and 159 get different indices, 159 and 161 the same); in     *)
(* general two calls inside one span [k*W, (k+1)*W) get the same index,    *)
(* and a call W seconds after another gets the index advanced by exactly 1. *)
C11_WindowIndex ==
    \A i, j \in DOMAIN probe :
        i < j =>
            LET W == probe[i].windowSeconds
                a == EpochSeconds(probe[i].at)
                b == EpochSeconds(probe[j].at)
            IN /\ (W = 60 /\ a = 120 /\ b = 179)
                     => probe[j].window = probe[i].window
               /\ (W = 60 /\ a \in {120, 179} /\ b = 181)
                     => probe[j].window = probe[i].window + 1
               /\ (W = 60 /\ a = 100 /\ b = 159)
                     => probe[j].window = probe[i].window + 1
               /\ (W = 60 /\ a = 159 /\ b = 161)
                     => probe[j].window = probe[i].window
               /\ (\E k \in 0..b : k * W <= a /\ b < (k + 1) * W)
                     => probe[j].window = probe[i].window
               /\ probe[j].at = probe[i].at + 1000 * W
                     => probe[j].window = probe[i].window + 1

(* With W = 60 the index was computed at epoch second 179 and then at      *)
(* epoch second 181, and the second index is the first plus 1.             *)
C11_Witness ==
    /\ Len(probe) = 2
    /\ probe[1].windowSeconds = 60
    /\ EpochSeconds(probe[1].at) = 179
    /\ EpochSeconds(probe[2].at) = 181
    /\ probe[2].window = probe[1].window + 1

----------------------------------------------------------------------------
(* The rule cache on its own: loadRulesForTenant and clearCache are called *)
(* one after the other while the clock runs over more than CACHE_TTL.      *)
(* lookups keeps the last MaxEvents calls.                                 *)

CacheStart == 100500     \* the clock at the start, milliseconds
CacheStepMs == 20000     \* the clock advances in steps of this size
CacheSpanMs == 120000    \* the clock runs for this long
MaxEvents == 3           \* lookups remembers this many calls

CachedStore == [t \in Tenants |-> IF t = "t1" THEN GeneralOnly ELSE OtherGeneral]

(* The history h with event e added, cut to the latest MaxEvents. *)
Keep(h, e) ==
    LET all == Append(h, e)
    IN IF Len(all) > MaxEvents THEN Tail(all) ELSE all

InitCache ==
    /\ now = CacheStart
    /\ db = CachedStore
    /\ rulesCache = EmptyMap
    /\ cacheExpiry = EmptyMap
    /\ store = EmptyMap
    /\ last = NoCall
    /\ okCalls = [t \in Tenants |-> <<>>]
    /\ errAt = [t \in Tenants |-> {}]
    /\ calls = 0
    /\ probe = <<>>
    /\ lookups = <<>>
    /\ Quiet

Lookup(tenantId, dbFail) ==
    /\ \E ld \in {loadRulesForTenant(rulesCache, cacheExpiry, db[tenantId],
                                     tenantId, now, dbFail)} :
          /\ rulesCache' = ld.rulesCache
          /\ cacheExpiry' = ld.cacheExpiry
          /\ lookups' = Keep(lookups,
                             [op |-> "lookup", tenantId |-> tenantId,
                              at |-> now, fetched |-> ld.fetched,
                              threw |-> ld.threw, rules |-> ld.rules])
    /\ UNCHANGED <<now, db, store, last, okCalls, errAt, calls, probe,
                   asyncVars>>

Invalidate ==
    /\ clearCache
    /\ lookups' = Keep(lookups,
                       [op |-> "clearCache", tenantId |-> "", at |-> now,
                        fetched |-> FALSE, threw |-> FALSE, rules |-> <<>>])
    /\ UNCHANGED <<probe, asyncVars>>

ElapseCache ==
    /\ now + CacheStepMs <= CacheStart + CacheSpanMs
    /\ now' = now + CacheStepMs
    /\ UNCHANGED <<db, rulesCache, cacheExpiry, store, last, okCalls, errAt,
                   calls, probe, lookups, asyncVars>>

NextCache ==
    \/ \E tenantId \in Tenants, dbFail \in BOOLEAN : Lookup(tenantId, dbFail)
    \/ Invalidate
    \/ ElapseCache

SpecCache == InitCache /\ [][NextCache]_vars

(* Events i < j of the history are lookups for the same tenant with no     *)
(* clearCache between them.                                                *)
LookupPair(i, j) ==
    /\ i < j
    /\ lookups[i].op = "lookup"
    /\ lookups[j].op = "lookup"
    /\ lookups[i].tenantId = lookups[j].tenantId
    /\ \A k \in i..j : lookups[k].op # "clearCache"

(* Lookup i stored the entry that lookup j finds: i fetched and returned   *)
(* normally, and no lookup between them did.                               *)
StoredFor(i, j) ==
    /\ LookupPair(i, j)
    /\ lookups[i].fetched /\ ~lookups[i].threw
    /\ \A k \in (i + 1)..(j - 1) :
          lookups[k].tenantId = lookups[i].tenantId
             => ~(lookups[k].fetched /\ ~lookups[k].threw)

FirstLookupAfterClear(i, j) ==
    /\ i < j
    /\ lookups[i].op = "clearCache"
    /\ lookups[j].op = "lookup"
    /\ \A k \in (i + 1)..(j - 1) : lookups[k].tenantId # lookups[j].tenantId

----------------------------------------------------------------------------
(* Window indices the clock of Spec passes through. *)
Windows ==
    {getCurrentWindow(t, W) : t \in StartNow..MaxNow, W \in {1, 2}}

(* The keys a rule of the given kind can count under for tenant t. *)
KeysOfKind(t, kind) ==
    {"rate_limit:" \o t \o ":" \o kind \o ":" \o id \o ":" \o ToString(w) :
        id \in Identifiers, w \in Windows}

(* C14: an API rule is skipped, with no counter incremented for it, when   *)
(* the request carries no target or the target does not match the rule's   *)
(* pattern; such a rule never causes the denial of that request.  (An API  *)
(* counter that changes in the call is the counter of another rule, one    *)
(* that was evaluated.)                                                    *)
C14_ApiRuleSkipped ==
    [][IsCall =>
          \A j \in DOMAIN last'.rules :
             LET rule == last'.rules[j]
                 url == last'.apiUrl
             IN (/\ rule.rule_type = "API"
                 /\ \/ url = NoUrl
                    \/ ~matchesPattern(url, rule.api_pattern))
                => /\ \A a \in DOMAIN last'.trace :
                         last'.trace[a].rule # rule
                   /\ \A k \in KeysOfKind(last'.tenantId, "API") :
                         \/ Count(store', k) = Count(store, k)
                         \/ \E a \in DOMAIN last'.trace :
                               /\ last'.trace[a].key = k
                               /\ last'.trace[a].rule # rule
                   /\ last'.result.allowed \/ LastEntry'.rule # rule]_vars

(* One target has exhausted the API rule; a request to a target that does  *)
(* not match the pattern, or without target, was then counted under the IP *)
(* rule alone and allowed.                                                 *)
C14_Witness ==
    /\ last.apiUrl \in {NoUrl, UrlB}
    /\ ~last.threw
    /\ last.result.allowed
    /\ \E j \in DOMAIN last.rules : last.rules[j].rule_type = "API"
    /\ Len(last.trace) = 1
    /\ LastEntry.rule.rule_type = "IP"
    /\ \E k \in KeysOfKind(last.tenantId, "API") : Count(store, k) > 1

(* The key the format rate_limit:{tenantId}:{ruleKind}:{scope}:{window}    *)
(* gives for a rule and a request made at time nowMs.                      *)
FormatKey(rule, tenantId, ipAddress, apiUrl, nowMs) ==
    LET scope == CASE rule.rule_type = "GENERAL" -> "general"
                   [] rule.rule_type = "IP" -> ipAddress
                   [] rule.rule_type = "API" -> Join(apiUrl)
        windowIndex == EpochSeconds(nowMs) \div rule.window_seconds
    IN Join(<<"rate_limit", ":", tenantId, ":", rule.rule_type, ":", scope,
              ":", ToString(windowIndex)>>)

(* C15: the counter key of every increment is exactly                      *)
(* rate_limit:{tenantId}:{ruleKind}:{scopeIdentifier}:{windowIndex}, the   *)
(* scope being 'general', the source address or the target, and the window *)
(* index floor(epoch seconds / window_seconds) of the rule.                *)
C15_KeyFormat ==
    [][IsCall =>
          LET key(a) == FormatKey(last'.trace[a].rule, last'.tenantId,
                                  last'.ipAddress, last'.apiUrl, now)
          IN /\ \A a \in DOMAIN last'.trace :
                   /\ last'.trace[a].key = key(a)
                   /\ last'.trace[a].count > 0
                         => /\ key(a) \in DOMAIN store'
                            /\ Count(store', key(a)) >= last'.trace[a].count
             /\ \A k \in DOMAIN store' :
                   Count(store', k) # Count(store, k)
                      => \E a \in DOMAIN last'.trace : k = key(a)]_vars

(* A call to a target has been counted under an API rule and under an IP   *)
(* rule, each under its own key.                                           *)
C15_Witness ==
    /\ ~last.threw
    /\ Len(last.trace) = 2
    /\ last.trace[1].rule.rule_type = "IP"
    /\ last.trace[2].rule.rule_type = "API"
    /\ last.trace[1].key \in DOMAIN store
    /\ last.trace[2].key \in DOMAIN store
    /\ last.trace[2].key
          = FormatKey(last.trace[2].rule, last.tenantId, last.ipAddress,
                      last.apiUrl, now)

----------------------------------------------------------------------------
(* matchesPattern on its own: a pattern and a target are chosen, then the  *)
(* function is called once; probe holds the arguments and the result.      *)

MaxPatternLen == 3       \* patterns have at most this many characters
MaxUrlLen == 3           \* targets have at most this many characters

PatternChars == {"/", "a", ".", "*"}
UrlChars == {"/", "a", "A", ".", "\n"}

SeqsUpTo(S, n) == UNION {[1..k -> S] : k \in 0..n}

InitPattern ==
    /\ now = StartNow
    /\ lookups = <<>>
    /\ Quiet
    /\ Idle
    /\ \E pattern \in SeqsUpTo(PatternChars, MaxPatternLen),
          url \in SeqsUpTo(UrlChars, MaxUrlLen) :
            probe = <<[pattern |-> pattern, url |-> url, called |-> FALSE,
                       threw |-> FALSE, matches |-> FALSE]>>

CallMatchesPattern ==
    /\ ~probe[1].called
    /\ probe' = <<[pattern |-> probe[1].pattern, url |-> probe[1].url,
                   called |-> TRUE,
                   threw |-> matchesPatternThrows(probe[1].pattern),
                   matches |-> /\ ~matchesPatternThrows(probe[1].pattern)
                               /\ matchesPattern(probe[1].url,
                                                 probe[1].pattern)]>>
    /\ UNCHANGED <<limiterVars, lookups, asyncVars>>

NextPattern == CallMatchesPattern

SpecPattern == InitPattern /\ [][NextPattern]_vars

(* Lower case of a character of the alphabets above. *)
Lower(c) == IF c = "A" THEN "a" ELSE c

RECURSIVE GlobMatch(_, _)
(* The whole of s equals p with each '*' replaced by some run of           *)
(* characters, letters compared without regard to case.                    *)
GlobMatch(p, s) ==
    IF p = <<>> THEN s = <<>>
    ELSE IF Head(p) = "*"
    THEN \E k \in 0..Len(s) : GlobMatch(Tail(p), Drop(s, k))
    ELSE /\ s # <<>>
         /\ Lower(Head(p)) = Lower(Head(s))
         /\ GlobMatch(Tail(p), Tail(s))

(* C16 (as claimed): matchesPattern returns true exactly when the whole    *)
(* target equals the pattern with each '*' replaced by some (possibly      *)
(* empty) run of characters, compared case-insensitively and anchored at   *)
(* both ends.                                                              *)
C16_WildcardMatch ==
    \A i \in DOMAIN probe :
        probe[i].called =>
            (probe[i].matches <=> GlobMatch(probe[i].pattern, probe[i].url))

----------------------------------------------------------------------------
(* C18: incrementCounter sets the key's expiry, to the window length, only *)
(* on the increment that returns 1; increments that return more than 1     *)
(* never set or extend the expiry.                                         *)
C18_ExpiryOnFirstIncrement ==
    [][IsCall =>
          /\ \A k \in DOMAIN store :
                /\ k \in DOMAIN store'
                /\ store'[k].expireAt = store[k].expireAt
          /\ \A k \in (DOMAIN store') \ (DOMAIN store) :
                \E a \in DOMAIN last'.trace :
                   LET e == last'.trace[a]
                   IN /\ e.key = k
                      /\ e.count = 1
                      /\ store'[k].expireAt
                            = IF e.threw THEN NoTTL
                              ELSE <<now + 1000 * e.rule.window_seconds>>]_vars

(* The last call was the second increment of a key within its window, made *)
(* later than the first, and the key still expires one window length after *)
(* the first.                                                              *)
C18_Witness ==
    /\ ~last.threw
    /\ last.trace # <<>>
    /\ LastEntry.count = 2
    /\ LastEntry.key \in DOMAIN store
    /\ store[LastEntry.key].expireAt # NoTTL
    /\ store[LastEntry.key].expireAt[1]
          < now + 1000 * LastEntry.rule.window_seconds
    /\ okCalls[last.tenantId][Len(okCalls[last.tenantId])] = now

----------------------------------------------------------------------------
(* Calls in flight.  checkRateLimit is an async function: it runs until an *)
(* await (the rule query, INCR, EXPIRE), and other calls, the clock and    *)
(* the rule store move before it resumes.  Each process of Procs makes     *)
(* calls one after the other; procs[p].pc is the await it stands at.       *)
(* Commands are not rejected here (Spec covers that).                      *)

NumProcs == 2            \* number of request handlers running concurrently
AsyncCalls == 2          \* checkRateLimit is called at most this often

Procs == 1..NumProcs

AsyncRequests == { <<"t2", "10.0.0.1", NoUrl>> }

(* The rule that POST /api/tenants/{id}/rules inserts meanwhile. *)
AddedRule == Rule("IP", 2, 2, <<>>)

IdleProc ==
    [pc |-> "idle", tenantId |-> "", ipAddress |-> "", apiUrl |-> <<>>,
     started |-> 0, fetched |-> FALSE, rows |-> <<>>, order |-> <<>>,
     pos |-> 0, key |-> "", window |-> 0, seen |-> 0, count |-> 0,
     result |-> AllRulesPassed]

(* storeRules keeping an entry for twice the time *)
storeRules_doubleTtl(cache, expiryMap, tenantId, rows, started) ==
    [rulesCache |-> Put(cache, tenantId, rows),
     cacheExpiry |-> Put(expiryMap, tenantId, started + 2 * CACHE_TTL)]

(* storeRules never moving an entry's expiry back *)
storeRules_keepLaterExpiry(cache, expiryMap, tenantId, rows, started) ==
    [rulesCache |-> Put(cache, tenantId, rows),
     cacheExpiry |->
        Put(expiryMap, tenantId,
            IF tenantId \in DOMAIN expiryMap
            THEN Max(expiryMap[tenantId], started + CACHE_TTL)
            ELSE started + CACHE_TTL)]

(* Lines 39-41 of loadRulesForTenant: both maps are set without an await   *)
(* in between; started is the Date.now() taken before the query.           *)
storeRules(cache, expiryMap, tenantId, rows, started) ==
    [rulesCache |-> Put(cache, tenantId, rows),
     cacheExpiry |-> Put(expiryMap, tenantId, started + CACHE_TTL)]

(* The first position from i on whose rule is not skipped; 0 if none. *)
nextRule(order, i, apiUrl) ==
    LET rest == {j \in i..Len(order) : ~skipped(order[j], apiUrl)}
    IN IF rest = {} THEN 0
       ELSE CHOOSE j \in rest : \A k \in rest : j <= k

(* The loops arrive at position i: return when no rule is left, else       *)
(* compute window and key of the next rule and issue INCR.  seen is the    *)
(* value Redis holds under the key at that moment (the code does not read  *)
(* it).                                                                    *)
enter(pr, order, i, st, nowMs) ==
    LET j == nextRule(order, i, pr.apiUrl)
        key == redisKey(order[j], pr.tenantId, pr.ipAddress, pr.apiUrl, nowMs)
    IN IF j = 0
       THEN [pr EXCEPT !.pc = "done", !.order = order,
                       !.result = AllRulesPassed]
       ELSE [pr EXCEPT !.pc = "incr", !.order = order, !.pos = j,
                       !.window = getCurrentWindow(nowMs,
                                                   order[j].window_seconds),
                       !.key = key,
                       !.seen = IF key \in DOMAIN st THEN st[key].count
                                ELSE 0]

(* ruleResult letting one request more than the limit pass *)
ruleResult_lenient(rule, count, window) ==
    LET allowed == count <= rule.limit + 1
        remaining == Max(0, rule.limit - count)
        resetTime == (window + 1) * rule.window_seconds
    IN IF allowed THEN Passed(rule, remaining, resetTime)
       ELSE Denied(rule, remaining, resetTime)

(* ruleResult refusing the request that reaches the limit *)
ruleResult_strict(rule, count, window) ==
    LET allowed == count < rule.limit
        remaining == Max(0, rule.limit - count)
        resetTime == (window + 1) * rule.window_seconds
    IN IF allowed THEN Passed(rule, remaining, resetTime)
       ELSE Denied(rule, remaining, resetTime)

(* Lines 140-159 of checkRule: the result from the count INCR returned. *)
ruleResult(rule, count, window) ==
    LET allowed == count <= rule.limit
        remaining == Max(0, rule.limit - count)
        resetTime == (window + 1) * rule.window_seconds
    IN IF allowed THEN Passed(rule, remaining, resetTime)
       ELSE Denied(rule, remaining, resetTime)

(* checkRule has its count: return the denial, or go on with the loops. *)
settle(pr, st, nowMs) ==
    LET r == ruleResult(pr.order[pr.pos], pr.count, pr.window)
    IN IF ~r.allowed
       THEN [pr EXCEPT !.pc = "done", !.result = r]
       ELSE enter(pr, pr.order, pr.pos + 1, st, nowMs)

(* awaitIncr writing the value read when the command was issued, plus 1 *)
awaitIncr_readThenWrite(st, key, seen) ==
    Put(st, key, [count |-> seen + 1,
                  expireAt |-> IF key \in DOMAIN st THEN st[key].expireAt
                               ELSE NoTTL])

(* await redis.incr(key): Redis increments the value it holds now. *)
awaitIncr(st, key, seen) == RedisIncr(st, key)

InitAsync ==
    /\ now = StartNow
    /\ db = CachedStore
    /\ rulesCache = EmptyMap
    /\ cacheExpiry = EmptyMap
    /\ store = EmptyMap
    /\ last = NoCall
    /\ okCalls = [t \in Tenants |-> <<>>]
    /\ errAt = [t \in Tenants |-> {}]
    /\ calls = 0
    /\ probe = <<>>
    /\ lookups = <<>>
    /\ procs = [p \in Procs |-> IdleProc]
    /\ received = EmptyMap
    /\ expiredKeys = {}
    /\ writes = <<>>

(* checkRateLimit is called and runs to its first await. *)
Begin(p, tenantId, ipAddress, apiUrl) ==
    /\ procs[p].pc \in {"idle", "done"}
    /\ calls < AsyncCalls
    /\ calls' = calls + 1
    /\ LET ld == loadRulesForTenant(rulesCache, cacheExpiry, <<>>, tenantId,
                                    now, FALSE)
           pr == [IdleProc EXCEPT !.tenantId = tenantId,
                                  !.ipAddress = ipAddress,
                                  !.apiUrl = apiUrl, !.started = now]
       IN procs' = [procs EXCEPT ![p] =
                       IF ld.fetched
                       THEN [pr EXCEPT !.pc = "query", !.fetched = TRUE]
                       ELSE enter(pr, evaluationOrder(ld.rules), 1, store,
                                  now)]
    /\ UNCHANGED <<now, db, rulesCache, cacheExpiry, store, last, okCalls,
                   errAt, probe, lookups, received, expiredKeys, writes>>

(* The rule store answers the query. *)
QueryRun(p) ==
    /\ procs[p].pc = "query"
    /\ procs' = [procs EXCEPT ![p] =
                    [procs[p] EXCEPT !.pc = "resume",
                                     !.rows = db[procs[p].tenantId]]]
    /\ UNCHANGED <<limiterVars, probe, lookups, received, expiredKeys,
                   writes>>

(* loadRulesForTenant resumes, writes the cache and returns; the loops     *)
(* start.                                                                  *)
QueryResume(p) ==
    /\ procs[p].pc = "resume"
    /\ LET pr == procs[p]
           w == storeRules(rulesCache, cacheExpiry, pr.tenantId, pr.rows,
                           pr.started)
       IN /\ rulesCache' = w.rulesCache
          /\ cacheExpiry' = w.cacheExpiry
          /\ writes' = Append(writes, [proc |-> p, tenantId |-> pr.tenantId,
                                       rows |-> pr.rows,
                                       started |-> pr.started])
          /\ procs' = [procs EXCEPT ![p] =
                          enter(pr, evaluationOrder(pr.rows), 1, store, now)]
    /\ UNCHANGED <<now, db, store, last, okCalls, errAt, calls, probe,
                   lookups, received, expiredKeys>>

(* Redis runs INCR and incrementCounter resumes with the count. *)
Incr(p) ==
    /\ procs[p].pc = "incr"
    /\ LET pr == procs[p]
           st1 == awaitIncr(store, pr.key, pr.seen)
           count == st1[pr.key].count
           got == IF pr.key \in DOMAIN received THEN received[pr.key]
                  ELSE <<>>
       IN /\ store' = st1
          /\ received' = Put(received, pr.key, Append(got, count))
          /\ procs' = [procs EXCEPT ![p] =
                          IF count = 1
                          THEN [pr EXCEPT !.pc = "expire", !.count = count]
                          ELSE settle([pr EXCEPT !.count = count], st1, now)]
    /\ UNCHANGED <<now, db, rulesCache, cacheExpiry, last, okCalls, errAt,
                   calls, probe, lookups, expiredKeys, writes>>

(* Redis runs EXPIRE and incrementCounter returns the count. *)
Expire(p) ==
    /\ procs[p].pc = "expire"
    /\ LET pr == procs[p]
           st1 == RedisExpire(store, pr.key,
                              pr.order[pr.pos].window_seconds, now)
       IN /\ store' = st1
          /\ procs' = [procs EXCEPT ![p] = settle(pr, st1, now)]
    /\ UNCHANGED <<now, db, rulesCache, cacheExpiry, last, okCalls, errAt,
                   calls, probe, lookups, received, expiredKeys, writes>>

(* POST /api/tenants/{id}/rules inserts a rule for tenant t2, once. *)
AddRule ==
    /\ db["t2"] = CachedStore["t2"]
    /\ db' = [db EXCEPT !["t2"] = Append(@, AddedRule)]
    /\ UNCHANGED <<now, rulesCache, cacheExpiry, store, last, okCalls, errAt,
                   calls, probe, lookups, asyncVars>>

(* Time passes; Redis expires keys. *)
TickAsync ==
    /\ Tick(TickMs)
    /\ expiredKeys' = expiredKeys \cup ((DOMAIN store) \ (DOMAIN store'))
    /\ UNCHANGED <<probe, lookups, procs, received, writes>>

NextAsync ==
    \/ \E p \in Procs, req \in AsyncRequests : Begin(p, req[1], req[2], req[3])
    \/ \E p \in Procs : QueryRun(p)
    \/ \E p \in Procs : QueryResume(p)
    \/ \E p \in Procs : Incr(p)
    \/ \E p \in Procs : Expire(p)
    \/ AddRule
    \/ TickAsync

SpecAsync == InitAsync /\ [][NextAsync]_vars

----------------------------------------------------------------------------
(* C17: incrementCounter loses no update under concurrency: the callers of *)
(* a live key, absent at first, receive the distinct values 1..N in the    *)
(* order in which Redis served them and the stored counter ends at N, in   *)
(* every interleaving of the INCR and EXPIRE steps.                        *)
C17_NoLostUpdate ==
    \A k \in DOMAIN received :
        k \notin expiredKeys =>
            /\ \A i \in DOMAIN received[k] : received[k][i] = i
            /\ k \in DOMAIN store
            /\ store[k].count = Len(received[k])

(* Two calls are in flight on the same key: one has received 1 and still   *)
(* awaits its EXPIRE, the other has received 2 in the meantime.            *)
C17_Witness ==
    \E p, q \in Procs :
        /\ p # q
        /\ procs[p].pc = "expire"
        /\ procs[q].pc = "done"
        /\ procs[q].key = procs[p].key
        /\ procs[q].count = 2
        /\ received[procs[p].key] = <<1, 2>>

(* Calls p and q have returned, both were evaluated against one and the    *)
(* same single rule under the same key, and both issued their INCR when    *)
(* the counter stood at limit - 1.                                         *)
AtTheBoundary(p, q) ==
    /\ p # q
    /\ procs[p].pc = "done" /\ procs[q].pc = "done"
    /\ Len(procs[p].order) = 1 /\ procs[q].order = procs[p].order
    /\ procs[p].pos = 1 /\ procs[q].pos = 1
    /\ procs[q].key = procs[p].key
    /\ procs[p].seen = procs[p].order[1].limit - 1
    /\ procs[q].seen = procs[p].order[1].limit - 1

(* C19: with a single rule of limit L whose counter stands at L - 1, two   *)
(* concurrent calls for the same key can both observe a count <= L and     *)
(* both be allowed (the witness).  The decision of each call rests on the  *)
(* count it observed alone, and both are allowed only when the key expired *)
(* between the two increments: while the key lives the calls observe      *)
(* different counts, none below L, so at most one of them is allowed.      *)
C19_CountBased ==
    \A p, q \in Procs :
        AtTheBoundary(p, q) =>
            LET L == procs[p].order[1].limit
            IN /\ procs[p].result.allowed <=> procs[p].count <= L
               /\ procs[q].result.allowed <=> procs[q].count <= L
               /\ (procs[p].result.allowed /\ procs[q].result.allowed)
                     => procs[p].key \in expiredKeys
               /\ procs[p].key \notin expiredKeys
                     => /\ procs[p].count # procs[q].count
                        /\ procs[p].count >= L
                        /\ procs[q].count >= L

(* Two concurrent calls at the boundary have both observed a count <= L    *)
(* and were both allowed.                                                  *)
C19_Witness ==
    \E p, q \in Procs :
        /\ AtTheBoundary(p, q)
        /\ procs[p].count <= procs[p].order[1].limit
        /\ procs[q].count <= procs[q].order[1].limit
        /\ procs[p].result.allowed
        /\ procs[q].result.allowed

(* The cache entries written for tenant t, in the order of writing. *)
WritesFor(t) == SelectSeq(writes, LAMBDA w : w.tenantId = t)

(* C20: concurrent lookups for the same uncached tenant can both fetch and *)
(* both write the cache (the witness); at any moment the cache holds for   *)
(* each tenant exactly the rule list and the expiry written by the latest  *)
(* writer, both stemming from that one lookup.                             *)
C20_LastWriterWins ==
    /\ DOMAIN rulesCache = DOMAIN cacheExpiry
    /\ \A t \in Tenants :
          LET ws == WritesFor(t)
          IN /\ t \in DOMAIN rulesCache <=> ws # <<>>
             /\ ws # <<>> =>
                   /\ rulesCache[t] = ws[Len(ws)].rows
                   /\ cacheExpiry[t] = ws[Len(ws)].started + 60000

(* Two lookups for the same tenant were in flight together, both fetched   *)
(* and both wrote; the later writer had started earlier and fetched other  *)
(* rows, and the cache holds its rows and its expiry.                      *)
C20_Witness ==
    /\ Len(writes) = 2
    /\ writes[1].tenantId = writes[2].tenantId
    /\ writes[1].proc # writes[2].proc
    /\ writes[2].started < writes[1].started
    /\ writes[2].rows # writes[1].rows
    /\ rulesCache[writes[2].tenantId] = writes[2].rows
    /\ cacheExpiry[writes[2].tenantId] = writes[2].started + 60000

----------------------------------------------------------------------------
(* The calls of Spec over a rule store in which both tenants have a rule   *)
(* of the same kind.                                                       *)

TenantStore == [t \in Tenants |-> IF t = "t1" THEN GeneralOnly ELSE OtherGeneral]

InitTenants ==
    /\ now = StartNow
    /\ db = TenantStore
    /\ rulesCache = EmptyMap
    /\ cacheExpiry = EmptyMap
    /\ store = EmptyMap
    /\ last = NoCall
    /\ okCalls = [t \in Tenants |-> <<>>]
    /\ errAt = [t \in Tenants |-> {}]
    /\ calls = 0
    /\ probe = <<>>
    /\ lookups = <<>>
    /\ Quiet

SpecTenants == InitTenants /\ [][Next]_vars

(* The keys the rules of tenant t can count under. *)
TenantKeys ==
    [t \in Tenants |->
        UNION {KeysOfKind(t, kind) : kind \in {"GENERAL", "IP", "API"}}]

(* C21: tenants are isolated: a checkRateLimit call for tenant A leaves    *)
(* every counter and every cached rule set of a different tenant B         *)
(* unchanged, and with them the Decision every request of B would get.     *)
C21_TenantsIsolated ==
    [][IsCall =>
          \A B \in Tenants \ {last'.tenantId} :
             /\ \A k \in (DOMAIN store) \cup (DOMAIN store') :
                   \/ /\ k \in DOMAIN store
                      /\ k \in DOMAIN store'
                      /\ store'[k] = store[k]
                   \/ /\ k \in TenantKeys[last'.tenantId]
                      /\ k \notin TenantKeys[B]
             /\ B \in DOMAIN rulesCache' <=> B \in DOMAIN rulesCache
             /\ B \in DOMAIN cacheExpiry' <=> B \in DOMAIN cacheExpiry
             /\ B \in DOMAIN rulesCache => rulesCache'[B] = rulesCache[B]
             /\ B \in DOMAIN cacheExpiry => cacheExpiry'[B] = cacheExpiry[B]
             /\ \A req \in Requests :
                   req[1] = B =>
                      \A before \in {decide(rulesCache, cacheExpiry, db[B],
                                            store, B, req[2], req[3], now,
                                            FALSE, 0)},
                         after \in {decide(rulesCache', cacheExpiry', db[B],
                                           store', B, req[2], req[3], now,
                                           FALSE, 0)} :
                         /\ after.result = before.result
                         /\ after.fetched = before.fetched]_vars

(* A call of one tenant has been counted and allowed while the counter of  *)
(* another tenant stands above that tenant's limit and the rule sets of    *)
(* both are cached.                                                        *)
C21_Witness ==
    /\ last.tenantId # ""
    /\ ~last.threw
    /\ last.result.allowed
    /\ last.trace # <<>>
    /\ \E B \in Tenants \ {last.tenantId} :
          /\ B \in DOMAIN rulesCache
          /\ last.tenantId \in DOMAIN rulesCache
          /\ \E k \in DOMAIN store :
                /\ k \in TenantKeys[B]
                /\ store[k].count > rulesCache[B][1].limit

----------------------------------------------------------------------------
(* The evaluated rules of the call just made that were counted under k. *)
CountedUnder(k) ==
    {a \in DOMAIN last'.trace :
        last'.trace[a].key = k /\ last'.trace[a].count > 0}

(* C22 (as claimed): the value of a window counter is the number of        *)
(* requests evaluated against its (tenant, kind, scope, window): a request *)
(* evaluated against it raises it by exactly 1 and any other request       *)
(* leaves it alone, for every rule set of the tenant, also one with        *)
(* several rules of the same kind and window length.                       *)
C22_CounterCountsRequests ==
    [][IsCall =>
          \A k \in (DOMAIN store) \cup (DOMAIN store') :
             Count(store', k) - Count(store, k)
                = IF CountedUnder(k) # {} THEN 1 ELSE 0]_vars

----------------------------------------------------------------------------
(* Rule creation: POST /api/tenants/{tenantId}/rules on its own.  The      *)
(* tenants of Tenants exist, the rule store starts empty, and requests     *)
(* with arbitrary bodies arrive one after the other; probe holds the last  *)
(* request and its response.  The numbers of the bodies are integers.      *)

MaxRules == 2            \* rules are created for a tenant at most this often

(* JSON values of a request body: absent, a number or a string. *)
Absent == [type |-> "undefined", num |-> 0, str |-> <<>>]
Num(n) == [type |-> "number", num |-> n, str |-> <<>>]
Str(cs) == [type |-> "string", num |-> 0, str |-> cs]

(* A value that is not falsy. *)
Truthy(v) ==
    CASE v.type = "number" -> v.num # 0
      [] v.type = "string" -> v.str # <<>>
      [] OTHER -> FALSE

(* The text of a value sent as a VARCHAR parameter. *)
Text(v) == IF v.type = "string" THEN v.str ELSE <<ToString(v.num)>>

validRuleTypes == {"GENERAL", "IP", "API"}

(* The bodies that are sent; rule_type "" stands for an absent one. *)
RuleTypeValues == {"", "GENERAL", "API", "OTHER"}
LimitValues == {Absent, Num(0), Num(-1), Num(2), Str(<<"5">>)}
WindowValues == {Absent, Num(0), Num(1)}
PatternValues == {Absent, Str(<<>>), Str(PatA), Num(7)}

Bodies ==
    [rule_type : RuleTypeValues, limit : LimitValues,
     window_seconds : WindowValues, api_pattern : PatternValues]

(* The tenant ids of the request path: an existing and an unknown tenant. *)
PathTenants == {"t1", "t0"}

(* The status the handler answers with (lines 114-189). *)
ruleStatus(tenantId, body) ==
    IF tenantId \notin Tenants THEN 404
    ELSE IF body.rule_type = "" \/ body.rule_type \notin validRuleTypes
    THEN 400
    ELSE IF \/ ~Truthy(body.limit)
            \/ body.limit.type # "number"
            \/ body.limit.num <= 0
    THEN 400
    ELSE IF \/ ~Truthy(body.window_seconds)
            \/ body.window_seconds.type # "number"
            \/ body.window_seconds.num <= 0
    THEN 400
    ELSE IF /\ body.rule_type = "API"
            /\ ~Truthy(body.api_pattern) \/ body.api_pattern.type # "string"
    THEN 400
    ELSE 201

(* The row of the INSERT: api_pattern || null. *)
insertedRule(body) ==
    Rule(body.rule_type, body.limit.num, body.window_seconds.num,
         IF Truthy(body.api_pattern) THEN Text(body.api_pattern) ELSE <<>>)

InitRules ==
    /\ now = StartNow
    /\ probe = <<>>
    /\ lookups = <<>>
    /\ Quiet
    /\ Idle

PostRule(tenantId, body) ==
    /\ tenantId \in Tenants => Len(db[tenantId]) < MaxRules
    /\ \E status \in {ruleStatus(tenantId, body)} :
          /\ db' = IF status = 201
                   THEN [db EXCEPT ![tenantId] = Append(@, insertedRule(body))]
                   ELSE db
          /\ probe' = <<[tenantId |-> tenantId, body |-> body,
                         status |-> status, inserted |-> status = 201]>>
    /\ UNCHANGED <<now, rulesCache, cacheExpiry, store, last, okCalls, errAt,
                   calls, lookups, asyncVars>>

NextRules == \E tenantId \in PathTenants, body \in Bodies : PostRule(tenantId, body)

SpecRules == InitRules /\ [][NextRules]_vars

(* The body does not describe a rule with limit > 0, window_seconds > 0    *)
(* and a pattern exactly when its kind is API.                             *)
ViolatesRuleInvariant(body) ==
    \/ body.limit.type # "number" \/ body.limit.num <= 0
    \/ body.window_seconds.type # "number" \/ body.window_seconds.num <= 0
    \/ ~(Truthy(body.api_pattern) <=> body.rule_type = "API")

(* C23 (as claimed): after any sequence of rule-creation requests every    *)
(* stored rule has limit > 0, window_seconds > 0 and an api_pattern        *)
(* present if and only if its rule_type is API; a request for an existing  *)
(* tenant whose body violates this is answered 400 and inserts nothing.    *)
C23_StoredRulesValid ==
    /\ \A t \in Tenants :
          \A i \in DOMAIN db[t] :
             /\ db[t][i].limit > 0
             /\ db[t][i].window_seconds > 0
             /\ db[t][i].api_pattern # <<>> <=> db[t][i].rule_type = "API"
    /\ \A i \in DOMAIN probe :
          (/\ probe[i].tenantId \in Tenants
           /\ ViolatesRuleInvariant(probe[i].body))
          => /\ probe[i].status = 400
             /\ ~probe[i].inserted

----------------------------------------------------------------------------
(* POST /api/proxy: the handler validates the body, takes the client       *)
(* address from the request headers, awaits checkRateLimit and answers.    *)
(* probe holds the last request and its response.  A tenant_id of "" and   *)
(* an api_url of <<>> stand for an absent, empty or non-string field; an   *)
(* x-forwarded-for header is the list of its comma-separated addresses,    *)
(* <<>> when the header is absent, and an absent x-real-ip is "".          *)

ProxyStores ==
    { [t \in Tenants |-> IF t = "t1" THEN ApiThenIp ELSE <<>>], CachedStore }

ProxyBodies == [tenant_id : {"", "t1", "t2"}, api_url : {NoUrl, UrlAX, UrlB}]

ForwardedValues == {<<>>, <<"10.0.0.1", "10.0.0.2">>}
RealIpValues == {"", "10.0.0.2"}

getClientIp(forwarded, realIp) ==
    IF forwarded # <<>> THEN forwarded[1]
    ELSE IF realIp # "" THEN realIp
    ELSE "127.0.0.1"

(* rateLimitHeaders adding a header only for a figure that is not falsy *)
rateLimitHeaders_truthy(result) ==
    LET h1 == IF result.limit # undefined /\ result.limit # 0
              THEN Put(EmptyMap, "X-RateLimit-Limit", ToString(result.limit))
              ELSE EmptyMap
        h2 == IF result.remaining # undefined /\ result.remaining # 0
              THEN Put(h1, "X-RateLimit-Remaining",
                       ToString(result.remaining))
              ELSE h1
    IN IF result.resetTime # undefined /\ result.resetTime # 0
       THEN Put(h2, "X-RateLimit-Reset", ToString(result.resetTime))
       ELSE h2

(* Lines 59-69: the headers of the response. *)
rateLimitHeaders(result) ==
    LET h1 == IF result.limit # undefined
              THEN Put(EmptyMap, "X-RateLimit-Limit", ToString(result.limit))
              ELSE EmptyMap
        h2 == IF result.remaining # undefined
              THEN Put(h1, "X-RateLimit-Remaining",
                       ToString(result.remaining))
              ELSE h1
    IN IF result.resetTime # undefined
       THEN Put(h2, "X-RateLimit-Reset", ToString(result.resetTime))
       ELSE h2

(* Lines 71-110: 429 for a denial, else the mock response with 200. *)
proxyStatus(result) == IF ~result.allowed THEN 429 ELSE 200

InitProxy ==
    /\ now = StartNow
    /\ db \in ProxyStores
    /\ rulesCache = EmptyMap
    /\ cacheExpiry = EmptyMap
    /\ store = EmptyMap
    /\ last = NoCall
    /\ okCalls = [t \in Tenants |-> <<>>]
    /\ errAt = [t \in Tenants |-> {}]
    /\ calls = 0
    /\ probe = <<>>
    /\ lookups = <<>>
    /\ Quiet

(* A request whose body fails the validation of lines 27-46. *)
PostInvalid(body) ==
    /\ body.tenant_id = "" \/ body.api_url = <<>>
    /\ probe' = <<[body |-> body, clientIp |-> "", called |-> FALSE,
                   status |-> 400, headers |-> EmptyMap]>>
    /\ UNCHANGED <<limiterVars, lookups, asyncVars>>

(* A request with a valid body. *)
PostProxy(body, forwarded, realIp, dbFail) ==
    /\ body.tenant_id # "" /\ body.api_url # <<>>
    /\ \E clientIp \in {getClientIp(forwarded, realIp)} :
          /\ checkRateLimit(body.tenant_id, clientIp, body.api_url, dbFail, 0)
          /\ probe' = <<[body |-> body, clientIp |-> clientIp,
                         called |-> TRUE,
                         status |-> proxyStatus(last'.result),
                         headers |-> rateLimitHeaders(last'.result)]>>
    /\ UNCHANGED <<lookups, asyncVars>>

NextProxy ==
    \/ \E body \in ProxyBodies : PostInvalid(body)
    \/ \E body \in ProxyBodies, forwarded \in ForwardedValues,
          realIp \in RealIpValues, dbFail \in BOOLEAN :
            PostProxy(body, forwarded, realIp, dbFail)
    \/ Tick(TickMs) /\ UNCHANGED <<probe, lookups, asyncVars>>

SpecProxy == InitProxy /\ [][NextProxy]_vars

(* C24: POST /api/proxy with a valid body answers 429 exactly when         *)
(* checkRateLimit returns allowed = false and 200 otherwise, and in both   *)
(* cases each of the headers X-RateLimit-Limit, -Remaining and -Reset is   *)
(* the Decision's limit, remaining and resetTime whenever that figure is   *)
(* present (and is not sent when it is absent).                            *)
C24_ProxyResponse ==
    \A i \in DOMAIN probe :
        LET r == probe[i]
            figure(name) ==
                CASE name = "X-RateLimit-Limit" -> last.result.limit
                  [] name = "X-RateLimit-Remaining" -> last.result.remaining
                  [] name = "X-RateLimit-Reset" -> last.result.resetTime
        IN (r.body.tenant_id # "" /\ r.body.api_url # <<>>) =>
              /\ r.called
              /\ last.tenantId = r.body.tenant_id
              /\ last.ipAddress = r.clientIp
              /\ last.apiUrl = r.body.api_url
              /\ r.status = 429 <=> ~last.result.allowed
              /\ r.status = 200 <=> last.result.allowed
              /\ \A name \in {"X-RateLimit-Limit", "X-RateLimit-Remaining",
                              "X-RateLimit-Reset"} :
                    /\ name \in DOMAIN r.headers <=> figure(name) # undefined
                    /\ figure(name) # undefined
                          => r.headers[name] = ToString(figure(name))

(* A request with a valid body has been answered 429 with the three        *)
(* headers of the denying rule, remaining being 0.                         *)
C24_Witness ==
    /\ probe # <<>>
    /\ probe[1].called
    /\ probe[1].status = 429
    /\ ~last.result.allowed
    /\ probe[1].headers["X-RateLimit-Limit"] = ToString(last.result.limit)
    /\ probe[1].headers["X-RateLimit-Remaining"] = "0"
    /\ probe[1].headers["X-RateLimit-Reset"] = ToString(last.result.resetTime)

----------------------------------------------------------------------------
(* The calls that have returned allowed = true after being evaluated       *)
(* against a single rule under key k.                                      *)
AllowedUnder(k) ==
    {p \in Procs : /\ procs[p].pc = "done"
                   /\ Len(procs[p].order) = 1
                   /\ procs[p].pos = 1
                   /\ procs[p].key = k
                   /\ procs[p].result.allowed}

(* The keys that calls evaluated against a single rule have used. *)
SingleRuleKeys ==
    {procs[p].key : p \in {q \in Procs : /\ Len(procs[q].order) = 1
                                         /\ procs[q].pos = 1}}

(* The limit of the single rule a call counted under k was evaluated       *)
(* against.                                                                *)
LimitUnder(k) ==
    LET p == CHOOSE q \in Procs : /\ Len(procs[q].order) = 1
                                  /\ procs[q].pos = 1
                                  /\ procs[q].key = k
    IN procs[p].order[1].limit

(* C25 (as claimed): under any interleaving of concurrent calls for a      *)
(* tenant with a single rule of limit L, with the counter store available, *)
(* at most L calls that use the same counter key return allowed = true.    *)
C25_AtMostLAllowed ==
    \A k \in SingleRuleKeys : Cardinality(AllowedUnder(k)) <= LimitUnder(k)

(* C25 (amended): ... at most L calls that use the same counter key, with  *)
(* no expiry of the key between their increments, return allowed = true;   *)
(* each call is allowed exactly when the count it received is at most L,   *)
(* and the live key has handed out each count once.                        *)
C25_AtMostLWhileKeyLives ==
    \A k \in SingleRuleKeys :
        k \notin expiredKeys =>
            /\ Cardinality(AllowedUnder(k)) <= LimitUnder(k)
            /\ \A p \in Procs :
                  (/\ procs[p].pc = "done" /\ Len(procs[p].order) = 1
                   /\ procs[p].pos = 1 /\ procs[p].key = k)
                  => (procs[p].result.allowed
                         <=> procs[p].count <= LimitUnder(k))
            /\ k \in DOMAIN received =>
                  Cardinality({i \in DOMAIN received[k] :
                                  received[k][i] <= LimitUnder(k)})
                     <= LimitUnder(k)

(* Two calls were in flight together on the same key, both issued their    *)
(* INCR when the counter stood at L - 1, the key has not expired, and one  *)
(* of them was allowed and the other denied.                               *)
C25_Witness ==
    \E p, q \in Procs :
        /\ AtTheBoundary(p, q)
        /\ procs[p].key \notin expiredKeys
        /\ procs[p].result.allowed
        /\ ~procs[q].result.allowed
        /\ Cardinality(AllowedUnder(procs[p].key)) = procs[p].order[1].limit

----------------------------------------------------------------------------
(* Times a and b (milliseconds) lie in the same aligned interval           *)
(* [k*W, (k+1)*W) of seconds since the epoch.                              *)
SameAlignedInterval(a, b, W) ==
    \E k \in 0..(Max(a, b) \div 1000) :
        /\ k * W * 1000 <= a /\ a < (k + 1) * W * 1000
        /\ k * W * 1000 <= b /\ b < (k + 1) * W * 1000

(* C26: the window index is floor(epoch_seconds / window_seconds) at every *)
(* time and for every window length; two timestamps get the same index if  *)
(* and only if they lie in the same window_seconds-aligned interval since  *)
(* the epoch, and the index never decreases as time advances.              *)
C26_WindowIndexFloor ==
    /\ \A i \in DOMAIN probe :
          probe[i].window
             = EpochSeconds(probe[i].at) \div probe[i].windowSeconds
    /\ \A i, j \in DOMAIN probe :
          i < j =>
             /\ probe[i].at <= probe[j].at
             /\ probe[i].window <= probe[j].window
             /\ probe[i].window = probe[j].window
                   <=> SameAlignedInterval(probe[i].at, probe[j].at,
                                           probe[i].windowSeconds)

(* The index was computed twice within one second, for a window of two     *)
(* seconds, on either side of an aligned boundary, and it advanced.        *)
C26_Witness ==
    /\ Len(probe) = 2
    /\ probe[1].windowSeconds = 2
    /\ probe[2].at - probe[1].at <= 1000
    /\ probe[1].at % 1000 = 999
    /\ ~SameAlignedInterval(probe[1].at, probe[2].at, 2)
    /\ probe[2].window = probe[1].window + 1

----------------------------------------------------------------------------
(* matchesPattern on patterns and targets made of regular-expression       *)
(* metacharacters: a pattern and a target are chosen, then the function is *)
(* called once; probe holds the arguments and the outcome.                 *)

MetaPatternChars == {".", "+", "(", "\\", "*"}
MetaUrlChars == {".", "+", "(", "\\", "a"}

InitMeta ==
    /\ now = StartNow
    /\ lookups = <<>>
    /\ Quiet
    /\ Idle
    /\ \E pattern \in SeqsUpTo(MetaPatternChars, MaxPatternLen),
          url \in SeqsUpTo(MetaUrlChars, MaxUrlLen) :
            probe = <<[pattern |-> pattern, url |-> url, called |-> FALSE,
                       threw |-> FALSE, matches |-> FALSE]>>

NextMeta == CallMatchesPattern

SpecMeta == InitMeta /\ [][NextMeta]_vars

(* The pattern has no '*'. *)
StarFree(p) == \A i \in DOMAIN p : p[i] # "*"

(* C27: every character of a pattern other than '*' is matched literally,  *)
(* regular-expression metacharacters included: a pattern without '*'       *)
(* matches exactly the targets that equal it character by character, and   *)
(* one with '*' exactly the targets that equal it with each '*' replaced   *)
(* by a run of characters; matchesPattern returns a boolean and does not   *)
(* throw, whatever the pattern and the target.                             *)
C27_LiteralMatch ==
    \A i \in DOMAIN probe :
        probe[i].called =>
            /\ ~probe[i].threw
            /\ probe[i].matches \in BOOLEAN
            /\ StarFree(probe[i].pattern)
                  => (probe[i].matches
                         <=> /\ Len(probe[i].url) = Len(probe[i].pattern)
                             /\ \A j \in DOMAIN probe[i].pattern :
                                   probe[i].url[j] = probe[i].pattern[j])
            /\ probe[i].matches
                  <=> GlobMatch(probe[i].pattern, probe[i].url)

(* matchesPattern was called with the pattern .(\ and the same target and  *)
(* returned true.                                                          *)
C27_Witness ==
    /\ probe # <<>>
    /\ probe[1].called
    /\ probe[1].pattern = <<".", "(", "\\">>
    /\ probe[1].url = probe[1].pattern
    /\ ~probe[1].threw
    /\ probe[1].matches

----------------------------------------------------------------------------
(* The tenant has rules, all of them API rules with a pattern, and the     *)
(* target is absent or matches none of the patterns.                       *)
(* The calls of Spec for a tenant whose rules are all API rules. *)

ApiStore == [t \in Tenants |-> IF t = "t1" THEN ApiOnly ELSE <<>>]

InitApi ==
    /\ now = StartNow
    /\ db = ApiStore
    /\ rulesCache = EmptyMap
    /\ cacheExpiry = EmptyMap
    /\ store = EmptyMap
    /\ last = NoCall
    /\ okCalls = [t \in Tenants |-> <<>>]
    /\ errAt = [t \in Tenants |-> {}]
    /\ calls = 0
    /\ probe = <<>>
    /\ lookups = <<>>
    /\ Quiet

SpecApi == InitApi /\ [][Next]_vars

NoRuleApplicable(rules, apiUrl) ==
    /\ rules # <<>>
    /\ \A j \in DOMAIN rules :
          /\ rules[j].rule_type = "API"
          /\ rules[j].api_pattern # <<>>
          /\ apiUrl = NoUrl \/ ~matchesPattern(apiUrl, rules[j].api_pattern)

(* C28: when a tenant has rules but none is applicable to the request      *)
(* (only API rules, and the target is absent or matches no pattern), the   *)
(* call returns allowed = true with limit, remaining and reset time absent *)
(* and increments no counter.                                              *)
C28_NothingApplicable ==
    [][(IsCall /\ NoRuleApplicable(db[last'.tenantId], last'.apiUrl)) =>
          /\ last'.result.allowed
          /\ last'.result.limit = undefined
          /\ last'.result.remaining = undefined
          /\ last'.result.resetTime = undefined
          /\ last'.trace = <<>>
          /\ store' = store]_vars

(* A tenant with two API rules: a request to a target that matches neither *)
(* pattern has returned normally, allowed and without figures, with the    *)
(* rules loaded, while the counter of a matching target stands above the   *)
(* limit of its rule.                                                      *)
C28_Witness ==
    /\ last.tenantId # ""
    /\ NoRuleApplicable(db[last.tenantId], last.apiUrl)
    /\ last.apiUrl # NoUrl
    /\ ~last.threw
    /\ last.rules = db[last.tenantId]
    /\ Len(last.rules) = 2
    /\ last.result = AllRulesPassed
    /\ \E k \in KeysOfKind(last.tenantId, "API") :
          Count(store, k) > last.rules[1].limit

----------------------------------------------------------------------------
(* Concurrent calls of loadRulesForTenant while the clock runs over more   *)
(* than CACHE_TTL.  A call that misses the cache awaits the query; the     *)
(* rule store answers at some later step (LookupQuery) and the call        *)
(* resumes at a later step again (LookupResume).  fetchedAt is the time at *)
(* which the rule store answered the query whose rows a call returns; it   *)
(* is kept in writes for the cache entry of tenant t2, the one tenant      *)
(* looked up (the code does not keep it).  lookups holds the time at which *)
(* a rule was inserted.                                                    *)

StaleStore == [t \in Tenants |-> IF t = "t2" THEN <<Rule("API", 1, 1, PatA)>> ELSE <<>>]

StaleAddedRule == Rule("API", 2, 2, PatC)

IdleLookup ==
    [pc |-> "idle", tenantId |-> "", started |-> 0, fetched |-> FALSE,
     fetchedAt |-> 0, rules |-> <<>>]

(* The cache is empty, or holds what a lookup that ran at CacheStart put   *)
(* there.                                                                  *)
InitStale ==
    /\ now = CacheStart
    /\ db = StaleStore
    /\ \E warm \in BOOLEAN :
          \E c \in {storeRules(EmptyMap, EmptyMap, "t2", StaleStore["t2"], CacheStart)} :
             /\ rulesCache = IF warm THEN c.rulesCache ELSE EmptyMap
             /\ cacheExpiry = IF warm THEN c.cacheExpiry ELSE EmptyMap
             /\ writes = IF warm
                         THEN <<[tenantId |-> "t2", started |-> CacheStart,
                                 fetchedAt |-> CacheStart]>>
                         ELSE <<>>
    /\ store = EmptyMap
    /\ last = NoCall
    /\ okCalls = [t \in Tenants |-> <<>>]
    /\ errAt = [t \in Tenants |-> {}]
    /\ calls = 0
    /\ probe = <<>>
    /\ lookups = <<>>
    /\ procs = [p \in Procs |-> IdleLookup]
    /\ received = EmptyMap
    /\ expiredKeys = {}

(* loadRulesForTenant is called: it returns the cached rules, or sends the *)
(* query and awaits.                                                       *)
LookupBegin(p, tenantId) ==
    /\ procs[p].pc \in {"idle", "done"}
    /\ calls < AsyncCalls
    /\ calls' = calls + 1
    /\ LET ld == loadRulesForTenant(rulesCache, cacheExpiry, <<>>, tenantId,
                                    now, FALSE)
           pr == [IdleLookup EXCEPT !.tenantId = tenantId, !.started = now]
       IN procs' = [procs EXCEPT ![p] =
                       IF ld.fetched
                       THEN [pr EXCEPT !.pc = "query", !.fetched = TRUE]
                       ELSE [pr EXCEPT !.pc = "done", !.rules = ld.rules,
                                       !.fetchedAt = writes[1].fetchedAt]]
    /\ UNCHANGED <<now, db, rulesCache, cacheExpiry, store, last, okCalls,
                   errAt, probe, lookups, received, expiredKeys, writes>>

(* The rule store answers the query of call p. *)
LookupQuery(p) ==
    /\ procs[p].pc = "query"
    /\ procs' = [procs EXCEPT ![p] =
                    [procs[p] EXCEPT !.pc = "resume", !.fetchedAt = now,
                                     !.rules = db[procs[p].tenantId]]]
    /\ UNCHANGED <<now, db, rulesCache, cacheExpiry, store, last, okCalls,
                   errAt, calls, probe, lookups, received, expiredKeys,
                   writes>>

(* Call p resumes after the await: it writes the cache and returns. *)
LookupResume(p) ==
    /\ procs[p].pc = "resume"
    /\ LET pr == procs[p]
           w == storeRules(rulesCache, cacheExpiry, pr.tenantId, pr.rules,
                           pr.started)
       IN /\ rulesCache' = w.rulesCache
          /\ cacheExpiry' = w.cacheExpiry
          /\ writes' = <<[tenantId |-> pr.tenantId, started |-> pr.started,
                          fetchedAt |-> pr.fetchedAt]>>
          /\ procs' = [procs EXCEPT ![p] = [pr EXCEPT !.pc = "done"]]
    /\ UNCHANGED <<now, db, store, last, okCalls, errAt, calls, probe,
                   lookups, received, expiredKeys>>

(* POST /api/tenants/{id}/rules inserts a rule for tenant t2, once. *)
AddRuleAt ==
    /\ db["t2"] = StaleStore["t2"]
    /\ db' = [db EXCEPT !["t2"] = Append(@, StaleAddedRule)]
    /\ lookups' = Append(lookups, [op |-> "addRule", tenantId |-> "t2",
                                   at |-> now])
    /\ UNCHANGED <<now, rulesCache, cacheExpiry, store, last, okCalls, errAt,
                   calls, probe, asyncVars>>

(* CacheStepMs pass. *)
TickStale ==
    /\ now + CacheStepMs <= CacheStart + CacheSpanMs
    /\ now' = now + CacheStepMs
    /\ UNCHANGED <<db, rulesCache, cacheExpiry, store, last, okCalls, errAt,
                   calls, probe, lookups, asyncVars>>

NextStale ==
    \/ \E p \in Procs : LookupBegin(p, "t2")
    \/ \E p \in Procs : LookupQuery(p)
    \/ \E p \in Procs : LookupResume(p)
    \/ AddRuleAt
    \/ TickStale

SpecStale == InitStale /\ [][NextStale]_vars

(* The lookup of call p has returned its rule set. *)
HasRules(p) == procs[p].pc = "done"

(* C29: rule data used by an evaluation is stale by at most 60 seconds:    *)
(* every rule set returned from the cache was fetched from the rule store  *)
(* no more than 60 seconds before the lookup that returns it, in every     *)
(* interleaving of lookups, and a rule created at time t is seen by every  *)
(* lookup started after t + 60 s.                                          *)
C29_StaleAtMostTtl ==
    \A p \in Procs :
        HasRules(p) =>
            /\ ~procs[p].fetched =>
                  /\ procs[p].fetchedAt <= procs[p].started
                  /\ procs[p].started - procs[p].fetchedAt <= 60000
            /\ \A i \in DOMAIN lookups :
                  (/\ lookups[i].op = "addRule"
                   /\ lookups[i].tenantId = procs[p].tenantId
                   /\ procs[p].started > lookups[i].at + 60000)
                  => \E j \in DOMAIN procs[p].rules :
                        procs[p].rules[j] = StaleAddedRule

(* A rule was inserted while the cache held the rules fetched before it.  *)
(* One call started after the insertion got the older rule set from the    *)
(* cache, and a call started more than 60 seconds after the insertion has  *)
(* the rule.                                                               *)
C29_Witness ==
    \E i \in DOMAIN lookups :
        /\ lookups[i].op = "addRule"
        /\ \E p \in Procs :
              /\ HasRules(p)
              /\ ~procs[p].fetched
              /\ procs[p].started > lookups[i].at
              /\ procs[p].fetchedAt < procs[p].started
              /\ \A j \in DOMAIN procs[p].rules :
                    procs[p].rules[j] # StaleAddedRule
        /\ \E q \in Procs :
              /\ HasRules(q)
              /\ procs[q].started > lookups[i].at + 60000
              /\ \E j \in DOMAIN procs[q].rules :
                    procs[q].rules[j] = StaleAddedRule

----------------------------------------------------------------------------
(* C30: every window counter is eventually destroyed by the store's        *)
(* expiry: each key created by incrementCounter has a time-to-live         *)
(* attached once the call that created it has returned, also when the      *)
(* EXPIRE command of that call is rejected.  (Between two calls of Spec no *)
(* incrementCounter is in flight.)                                         *)
C30_EveryKeyExpires ==
    \A k \in DOMAIN store : store[k].expireAt # NoTTL

----------------------------------------------------------------------------
(* The calls of Spec with a record of the denials: probe holds the rule    *)
(* and the counter key of every denial so far.                             *)

StickyStores ==
    { [t \in Tenants |-> IF t = "t1" THEN TwoIp ELSE <<>>],
      [t \in Tenants |-> IF t = "t1" THEN IpThenGeneral ELSE OtherGeneral] }

InitSticky ==
    /\ now = StartNow
    /\ db \in StickyStores
    /\ rulesCache = EmptyMap
    /\ cacheExpiry = EmptyMap
    /\ store = EmptyMap
    /\ last = NoCall
    /\ okCalls = [t \in Tenants |-> <<>>]
    /\ errAt = [t \in Tenants |-> {}]
    /\ calls = 0
    /\ probe = {}
    /\ lookups = <<>>
    /\ Quiet

(* checkRateLimit; a denial is recorded with the rule and key it is of. *)
checkRateLimitRecorded(tenantId, ipAddress, apiUrl, dbFail, failOp) ==
    /\ checkRateLimit(tenantId, ipAddress, apiUrl, dbFail, failOp)
    /\ probe' = IF last'.result.allowed THEN probe
                ELSE probe \cup {[rule |-> LastEntry'.rule,
                                  key |-> LastEntry'.key]}
    /\ UNCHANGED <<lookups, asyncVars>>

NextSticky ==
    \/ \E req \in Requests, dbFail \in BOOLEAN, failOp \in 0..MaxOps :
            /\ dbFail => failOp = 0
            /\ checkRateLimitRecorded(req[1], req[2], req[3], dbFail, failOp)
    \/ clearCache /\ UNCHANGED <<probe, lookups, asyncVars>>
    \/ Tick(TickMs) /\ UNCHANGED <<probe, lookups, asyncVars>>

SpecSticky == InitSticky /\ [][NextSticky]_vars

(* Entry a of the call's trace is of a rule and key with an earlier denial. *)
DeniedBefore(a) ==
    [rule |-> last'.trace[a].rule, key |-> last'.trace[a].key] \in probe

----------------------------------------------------------------------------
(* The entries of the call's trace whose increment of key k was served,    *)
(* among the first n (an entry that threw with count 1 is one whose INCR   *)
(* was served and whose EXPIRE was rejected).                              *)
ServedUnder(k, n) ==
    {b \in 1..n : last'.trace[b].key = k /\ last'.trace[b].count > 0}

(* C32: increments are never rolled back: when a request is denied by a    *)
(* later rule or fails open at a later rule, the counters of all rules     *)
(* evaluated before it stay incremented by that request (as do those of a  *)
(* request that is allowed): after the call each served counter stands at  *)
(* its value before the call plus the increments the call made on it.      *)
C32_NoRollback ==
    [][IsCall =>
          \A a \in DOMAIN last'.trace :
             last'.trace[a].count > 0
             => \E k \in {last'.trace[a].key} :
                   /\ k \in DOMAIN store'
                   /\ last'.trace[a].count
                         = Count(store, k) + Cardinality(ServedUnder(k, a))
                   /\ Count(store', k)
                         = Count(store, k)
                              + Cardinality(ServedUnder(k, Len(last'.trace)))]_vars

(* A request was denied by its second rule after its first rule had passed *)
(* it under another key; the first rule's counter holds the count the      *)
(* request received.                                                       *)
C32_Witness ==
    /\ last.tenantId # ""
    /\ ~last.threw
    /\ ~last.result.allowed
    /\ Len(last.trace) = 2
    /\ last.trace[1].key # last.trace[2].key
    /\ last.trace[1].result.allowed
    /\ last.trace[1].key \in DOMAIN store
    /\ store[last.trace[1].key].count = last.trace[1].count
    /\ last.trace[1].count = last.trace[1].rule.limit

----------------------------------------------------------------------------
(* C33: a counter is never reset inside its own window: the key for window *)
(* index w does not expire before window w ends, so in every step during   *)
(* which window w is current the key stays in the store and its count does *)
(* not decrease, in every interleaving of concurrent calls.                *)
C33_NoResetInWindow ==
    [][\A req \in AsyncRequests :
          \A j \in DOMAIN db[req[1]] :
             \A kb \in {redisKey(db[req[1]][j], req[1], req[2], req[3], now)},
                ka \in {redisKey(db[req[1]][j], req[1], req[2], req[3], now')} :
                (kb = ka /\ kb \in DOMAIN store)
                => /\ ka \in DOMAIN store'
                   /\ store'[ka].count >= store[kb].count]_vars

(* The key of the current window was created at an earlier time in this    *)
(* window, has been incremented again since and is still in the store.     *)
C33_Witness ==
    \E req \in AsyncRequests :
       \E j \in DOMAIN db[req[1]] :
          \E k \in {redisKey(db[req[1]][j], req[1], req[2], req[3], now)} :
             /\ k \in DOMAIN store
             /\ store[k].expireAt # NoTTL
             /\ store[k].expireAt[1]
                   < now + db[req[1]][j].window_seconds * 1000
             /\ store[k].count >= 2
             /\ \E p \in Procs : /\ procs[p].pc = "done"
                                 /\ procs[p].key = k
                                 /\ procs[p].count = store[k].count
                                 /\ procs[p].started = now

----------------------------------------------------------------------------
(* Event j is the first lookup for its tenant after the lookup that is     *)
(* event i, whose fetch failed.                                            *)
FirstLookupAfterFailure(i, j) ==
    /\ i < j
    /\ lookups[i].op = "lookup"
    /\ lookups[i].threw
    /\ lookups[j].op = "lookup"
    /\ lookups[j].tenantId = lookups[i].tenantId
    /\ \A k \in (i + 1)..(j - 1) : lookups[k].tenantId # lookups[j].tenantId

(* This step is a lookup whose fetch failed. *)
IsFailedLookup ==
    /\ lookups' # lookups
    /\ lookups'[Len(lookups')].op = "lookup"
    /\ lookups'[Len(lookups')].threw

(* C34: a failed rule fetch leaves the rule cache unchanged (no entry is   *)
(* created, replaced or extended, for that tenant or another), and the     *)
(* next lookup for that tenant after the failure fetches from the rule     *)
(* store again unless a still-valid entry existed.  (A fetch is made only  *)
(* when the tenant has no valid entry, and the lookups of this             *)
(* specification run one after the other, so no valid entry exists when    *)
(* the next lookup for the tenant is made: it always fetches.)             *)
C34_FailedFetchLeavesCache ==
    /\ [][IsFailedLookup =>
             /\ rulesCache' = rulesCache
             /\ cacheExpiry' = cacheExpiry
             /\ lookups'[Len(lookups')].fetched]_vars
    /\ [](\A i, j \in DOMAIN lookups :
             FirstLookupAfterFailure(i, j) => lookups[j].fetched)

(* A fetch failed while the other tenant was cached, and the next lookup   *)
(* for the tenant, 20 seconds later, fetched and filled the cache.         *)
C34_Witness ==
    \E i, j \in DOMAIN lookups :
        /\ FirstLookupAfterFailure(i, j)
        /\ j = Len(lookups)
        /\ lookups[j].at - lookups[i].at = 20000
        /\ lookups[j].fetched
        /\ ~lookups[j].threw
        /\ DOMAIN rulesCache = Tenants
        /\ rulesCache[lookups[j].tenantId] = lookups[j].rules
        /\ cacheExpiry[lookups[j].tenantId] = lookups[j].at + 60000

----------------------------------------------------------------------------
(* POST /api/tenants, handlers running concurrently.  Here db is the table *)
(* tenants, the names of its rows in insertion order (the table has no     *)
(* constraint on name), and procs holds the handlers.                      *)

Whitespace == {" ", "\t", "\n"}

RECURSIVE trimStart(_)
trimStart(cs) ==
    IF cs # <<>> /\ Head(cs) \in Whitespace THEN trimStart(Tail(cs)) ELSE cs

RECURSIVE trimEnd(_)
trimEnd(cs) ==
    IF cs # <<>> /\ cs[Len(cs)] \in Whitespace
    THEN trimEnd(SubSeq(cs, 1, Len(cs) - 1))
    ELSE cs

(* String.prototype.trim *)
trim(cs) == trimEnd(trimStart(cs))

(* The values of name in the request bodies. *)
NameValues ==
    {Absent, Num(7), Str(<<>>), Str(<<" ">>), Str(<<"a">>),
     Str(<<" ", "a">>), Str(<<"b">>)}

IdleHandler == [pc |-> "idle", name |-> Absent, status |-> 0]

InitNames ==
    /\ now = StartNow
    /\ db = <<>>
    /\ rulesCache = EmptyMap
    /\ cacheExpiry = EmptyMap
    /\ store = EmptyMap
    /\ last = NoCall
    /\ okCalls = [t \in Tenants |-> <<>>]
    /\ errAt = [t \in Tenants |-> {}]
    /\ calls = 0
    /\ probe = <<>>
    /\ lookups = <<>>
    /\ procs = [p \in Procs |-> IdleHandler]
    /\ received = EmptyMap
    /\ expiredKeys = {}
    /\ writes = <<>>

(* The request arrives: the body is validated, and SELECT is sent. *)
PostTenant(p, name) ==
    /\ procs[p].pc \in {"idle", "done"}
    /\ calls < AsyncCalls
    /\ calls' = calls + 1
    /\ procs' = [procs EXCEPT ![p] =
                    IF \/ ~Truthy(name)
                       \/ name.type # "string"
                       \/ Len(trim(name.str)) = 0
                    THEN [pc |-> "done", name |-> name, status |-> 400]
                    ELSE [pc |-> "select", name |-> name, status |-> 0]]
    /\ UNCHANGED <<now, db, rulesCache, cacheExpiry, store, last, okCalls,
                   errAt, probe, lookups, received, expiredKeys, writes>>

(* SELECT * FROM tenants WHERE name = $1 is answered. *)
TenantSelect(p, dbFail) ==
    /\ procs[p].pc = "select"
    /\ procs' = [procs EXCEPT ![p] =
                    IF dbFail
                    THEN [@ EXCEPT !.pc = "done", !.status = 500]
                    ELSE IF \E i \in DOMAIN db : db[i] = trim(@.name.str)
                    THEN [@ EXCEPT !.pc = "done", !.status = 409]
                    ELSE [@ EXCEPT !.pc = "insert"]]
    /\ UNCHANGED <<now, db, rulesCache, cacheExpiry, store, last, okCalls,
                   errAt, calls, probe, lookups, received, expiredKeys,
                   writes>>

(* INSERT INTO tenants (name) VALUES ($1) is answered. *)
TenantInsert(p, dbFail) ==
    /\ procs[p].pc = "insert"
    /\ db' = IF dbFail THEN db ELSE Append(db, trim(procs[p].name.str))
    /\ procs' = [procs EXCEPT ![p] =
                    [@ EXCEPT !.pc = "done",
                              !.status = IF dbFail THEN 500 ELSE 201]]
    /\ UNCHANGED <<now, rulesCache, cacheExpiry, store, last, okCalls, errAt,
                   calls, probe, lookups, received, expiredKeys, writes>>

NextNames ==
    \/ \E p \in Procs, name \in NameValues : PostTenant(p, name)
    \/ \E p \in Procs, dbFail \in BOOLEAN : TenantSelect(p, dbFail)
    \/ \E p \in Procs, dbFail \in BOOLEAN : TenantInsert(p, dbFail)

SpecNames == InitNames /\ [][NextNames]_vars

(* C35: after any interleaving of POST /api/tenants requests, no two       *)
(* stored tenants have the same trimmed name.                              *)
C35_NamesUnique ==
    \A i, j \in DOMAIN db : i # j => trim(db[i]) # trim(db[j])

----------------------------------------------------------------------------
(* checkRateLimit for a tenant with one rule, called at whole seconds and  *)
(* just before them around the boundary of a window of each length (120 s  *)
(* is a boundary of the windows of 2 and of 60 seconds); probe holds the   *)
(* latest call, the time it was made at and its result.                    *)

ResetStart == 118000     \* the clock at the start, milliseconds
ResetSeconds == 4        \* the clock runs for this many seconds

ResetStores ==
    { [t \in Tenants |-> IF t = "t1" THEN <<Rule("GENERAL", 1, W, <<>>)>> ELSE <<>>] :
         W \in WindowLengths }

InitReset ==
    /\ now \in {ResetStart + ms : ms \in Millis}
    /\ db \in ResetStores
    /\ rulesCache = EmptyMap
    /\ cacheExpiry = EmptyMap
    /\ store = EmptyMap
    /\ last = NoCall
    /\ okCalls = [t \in Tenants |-> <<>>]
    /\ errAt = [t \in Tenants |-> {}]
    /\ calls = 0
    /\ probe = <<>>
    /\ lookups = <<>>
    /\ Quiet

(* A call of checkRateLimit for tenant t1, as long as the counter of the   *)
(* current window is not above the limit.                                  *)
CallAt(ipAddress) ==
    /\ \A k \in DOMAIN store :
          k = redisKey(db["t1"][1], "t1", ipAddress, NoUrl, now)
             => store[k].count <= db["t1"][1].limit
    /\ \E d \in {decide(rulesCache, cacheExpiry, db["t1"], store, "t1",
                       ipAddress, NoUrl, now, FALSE, 0)} :
          /\ rulesCache' = d.rulesCache
          /\ cacheExpiry' = d.cacheExpiry
          /\ store' = d.store
          /\ probe' = <<[at |-> now, rule |-> db["t1"][1],
                         trace |-> d.trace, result |-> d.result]>>
    /\ UNCHANGED <<now, db, last, okCalls, errAt, calls, lookups, asyncVars>>

TickReset ==
    /\ now + WinTickMs <= ResetStart + 1000 * ResetSeconds
    /\ now' = now + WinTickMs
    /\ store' = RedisLive(store, now + WinTickMs)
    /\ UNCHANGED <<db, rulesCache, cacheExpiry, last, okCalls, errAt, calls,
                   probe, lookups, asyncVars>>

NextReset ==
    \/ \E ipAddress \in {"10.0.0.1"} : CallAt(ipAddress)
    \/ TickReset

SpecReset == InitReset /\ [][NextReset]_vars

(* C36: in every Decision that carries a reset time, the reset time (epoch *)
(* seconds) is strictly later than the time at which the rule's window     *)
(* index was computed and at most window_seconds later than it; it is the  *)
(* start of the next window.                                               *)
C36_ResetAfterNow ==
    \A i \in DOMAIN probe :
        probe[i].result.resetTime # undefined
        => \E W \in {probe[i].rule.window_seconds} :
              /\ probe[i].result.resetTime * 1000 > probe[i].at
              /\ probe[i].result.resetTime * 1000 - probe[i].at <= W * 1000
              /\ probe[i].result.resetTime % W = 0
              /\ probe[i].result.resetTime
                    = (EpochSeconds(probe[i].at) \div W + 1) * W

(* A call made at the very start of a window of 60 seconds was denied; its *)
(* reset time is 60 seconds later.                                         *)
C36_Witness ==
    /\ probe # <<>>
    /\ ~probe[1].result.allowed
    /\ probe[1].rule.window_seconds = 60
    /\ probe[1].result.resetTime # undefined
    /\ probe[1].result.resetTime * 1000 - probe[1].at = 60000

====
